---- MODULE Spec2Model ----
(***************************************************************************)
(* Command routing and execution pipeline of the zumygo chat bot:          *)
(* message normalisation (libs/message.go), the command registry and the   *)
(* prefix resolver (libs/commands.go), and the dispatcher with its worker  *)
(* pool, precondition gate, handler goroutine and timeout race             *)
(* (handlers/message.go).                                                  *)
(*                                                                         *)
(* Go strings are modelled as sequences of one-character strings, so that  *)
(* prefix tests, splitting, lower-casing and pattern matching are computed *)
(* rather than assumed.                                                    *)
(***************************************************************************)
EXTENDS Integers, Sequences, FiniteSets, TLC

VARIABLES
    lists,       \* libs.lists: the command registry, in registration order
    publicMode,  \* config.Config.PublicMode
    msgs,        \* normalised messages, one per inbound event, in arrival order
    queue,       \* messageQueue: indices into msgs, FIFO
    pc,          \* per message: position of its dispatch
    runner,      \* per message: 0 none, w>0 pool worker w, -1 inline goroutine
    scanPos,     \* per message: registry index the loop of ExecuteCommand is at
    handler,     \* per message: state of the goroutine running cmd.Execute
    doneCh,      \* per message: the buffered channel `done` (capacity 1)
    log,         \* per message: transport side effects and hook calls, in order
    crashed,     \* TRUE once an unrecovered panic has terminated the process
    calls,       \* the specs passed to NewCommands so far, in call order
    ret,         \* the last call of a function of package libs: name, input, result
    processed,   \* processingStats.processed
    commandCache,\* the map commandCache: entries [key, re] of pattern and compiled regex
    cleanups,    \* cleanupCommandCache goroutines started and not yet run
    netDown,     \* registry indices for whose spec a transport call fails at present
    envPublic,   \* the environment variable PUBLIC of the process
    envFile,     \* the PUBLIC entry of the file .env
    cacheLock,   \* commandCacheMutex: the goroutines holding it shared, and the one
                 \* holding it exclusively (0 none, -1 a cleanup goroutine)
    lookers,     \* per goroutine inside getCachedRegex: its position and its pattern
    compiles,    \* pairs <<pattern, n>>: pattern inserted n times since the last clear
    pluginManager, \* PluginManager: plugins, commands (by owning plugin) and mutex
    pmCalls,     \* per goroutine calling the plugin manager: operation, argument, position
    ds,          \* DownloaderSystem: cache (entries [key, expired]) and cacheMutex
    dsCalls,     \* per goroutine calling the download cache: operation, key, position
    users,       \* database Users: per JID the fields Money, ATM, LastRob and Inventory
    now,         \* time.Now().Unix() at the last economy operation
    econRet      \* the last economy operation: name, whether it was rejected, the users before it

vars == <<lists, publicMode, msgs, queue, pc, runner, scanPos, handler, doneCh, log, crashed,
          calls, ret, processed, commandCache, cleanups, netDown, envPublic, envFile,
          cacheLock, lookers, compiles,
          pluginManager, pmCalls,
          ds, dsCalls,
          users, now, econRet>>

----------------------------------------------------------------------------
(* Bounds of the model *)

MaxSpecs == 2      \* registrations performed during start-up
MaxMsgs == 3       \* inbound events of one run of the worker-pool model
QueueCap == 1      \* capacity of messageQueue (2000 in the source)
NumWorkers == 1    \* workerCount (10 in the source)
CacheTrigger == 3  \* cache size above which a miss starts a cleanup (2000 in the source)
CacheKeep == 2     \* cache size above which a cleanup clears the cache (1500 in the source)
MaxCleanups == 1   \* cleanup goroutines started by the clock and not yet run

Lookers == 1..(NumWorkers + 1)  \* goroutines that can be inside getCachedRegex at once

MaxPmCalls == 2    \* calls of the plugin manager each goroutine makes

PmCallers == 1..2  \* goroutines calling the plugin manager

NoPmCall == [op |-> "none", name |-> "", pc |-> "idle", outer |-> FALSE, err |-> FALSE, n |-> 0]

MaxDsCalls == 2    \* calls of the download cache each goroutine makes
DsCleanupAt == 1   \* cache size above which setCachedResult cleans up (1000 in the source)

DsCallers == 1..2  \* goroutines calling the download cache

NoDsCall == [op |-> "none", key |-> "", pc |-> "idle", hit |-> FALSE, n |-> 0]

MaxEconOps == 2    \* economy operations after the database was loaded

RobCooldown == 7200  \* seconds between two robberies of one user

EconUsers == {"alice", "bob"}

\* The user GetUser creates for an unknown JID.
NewUser == [Money |-> 100, ATM |-> 0, LastRob |-> 0, Inventory |-> {}]

NoEconRet == [op |-> "none", rejected |-> FALSE, before |-> <<>>, n |-> 0]

----------------------------------------------------------------------------
(* String helpers (Go package strings) *)

Empty == <<>>

HasPrefix(s, p) == Len(p) <= Len(s) /\ SubSeq(s, 1, Len(p)) = p

HasSuffix(s, p) == Len(p) <= Len(s) /\ SubSeq(s, Len(s) - Len(p) + 1, Len(s)) = p

TrimPrefix(s, p) == IF HasPrefix(s, p) THEN SubSeq(s, Len(p) + 1, Len(s)) ELSE s

Contains(s, sub) ==
    \E i \in 1..(Len(s) + 1) : i + Len(sub) - 1 <= Len(s) /\ SubSeq(s, i, i + Len(sub) - 1) = sub

ContainsAny(s, chars) == \E i \in 1..Len(s) : s[i] \in chars

LowerChar(c) == IF c = "P" THEN "p" ELSE c

ToLower(s) == [i \in 1..Len(s) |-> LowerChar(s[i])]

RECURSIVE TrimLeft(_, _)
TrimLeft(s, c) == IF s # <<>> /\ s[1] = c THEN TrimLeft(Tail(s), c) ELSE s

RECURSIVE TrimRight(_, _)
TrimRight(s, c) ==
    IF s # <<>> /\ s[Len(s)] = c THEN TrimRight(SubSeq(s, 1, Len(s) - 1), c) ELSE s

Trim(s, c) == TrimRight(TrimLeft(s, c), c)

WhiteSpace == {" ", "\t"}

RECURSIVE TrimSpace(_)
TrimSpace(s) ==
    IF s # <<>> /\ s[1] \in WhiteSpace THEN TrimSpace(Tail(s))
    ELSE IF s # <<>> /\ s[Len(s)] \in WhiteSpace THEN TrimSpace(SubSeq(s, 1, Len(s) - 1))
    ELSE s

IndexOf(s, c) ==
    IF \E i \in 1..Len(s) : s[i] = c
    THEN CHOOSE i \in 1..Len(s) : s[i] = c /\ \A j \in 1..(i - 1) : s[j] # c
    ELSE 0

RECURSIVE Split(_, _)
Split(s, c) ==
    LET i == IndexOf(s, c)
    IN IF i = 0 THEN <<s>>
       ELSE <<SubSeq(s, 1, i - 1)>> \o Split(SubSeq(s, i + 1, Len(s)), c)

RECURSIVE Join(_, _)
Join(parts, c) ==
    IF parts = <<>> THEN <<>>
    ELSE IF Len(parts) = 1 THEN parts[1]
    ELSE parts[1] \o <<c>> \o Join(Tail(parts), c)

RECURSIVE FilterDigits(_)
FilterDigits(s) ==
    IF s = <<>> THEN <<>>
    ELSE IF s[1] \in {"0", "1", "2", "3", "4", "5", "6", "7", "8", "9"}
         THEN <<s[1]>> \o FilterDigits(Tail(s))
         ELSE FilterDigits(Tail(s))

----------------------------------------------------------------------------
(* Configuration *)

Prefixes == << <<".">>, <<"!">> >>

Owner == << <<"+", "6", "2", "8">> >>

BotMention == <<"@", "7">>

----------------------------------------------------------------------------
(* Prefix resolver and pattern matching *)

\* Mutant: reports success when no configured prefix matched.
ExtractPrefixFrom_alwaysOk(prefixes, command) ==
    IF \E k \in 1..Len(prefixes) : HasPrefix(command, prefixes[k])
    THEN LET k == CHOOSE k \in 1..Len(prefixes) :
                     /\ HasPrefix(command, prefixes[k])
                     /\ \A j \in 1..(k - 1) : ~HasPrefix(command, prefixes[j])
         IN [prefix |-> prefixes[k], ok |-> TRUE]
    ELSE [prefix |-> Empty, ok |-> TRUE]

\* Mutant: the longest matching prefix wins.
ExtractPrefixFrom_longest(prefixes, command) ==
    IF \E k \in 1..Len(prefixes) : HasPrefix(command, prefixes[k])
    THEN LET k == CHOOSE k \in 1..Len(prefixes) :
                     /\ HasPrefix(command, prefixes[k])
                     /\ \A j \in 1..Len(prefixes) :
                            HasPrefix(command, prefixes[j]) => Len(prefixes[j]) <= Len(prefixes[k])
         IN [prefix |-> prefixes[k], ok |-> TRUE]
    ELSE [prefix |-> Empty, ok |-> FALSE]

RECURSIVE ExtractPrefixFrom(_, _)
ExtractPrefixFrom(prefixes, command) ==
    IF prefixes = <<>> THEN [prefix |-> Empty, ok |-> FALSE]
    ELSE IF HasPrefix(command, prefixes[1]) THEN [prefix |-> prefixes[1], ok |-> TRUE]
    ELSE ExtractPrefixFrom(Tail(prefixes), command)

ExtractPrefix(command) == ExtractPrefixFrom(Prefixes, command)

MetaChars == {"|", "*", "+", "?", "(", ")", "[", "]", "{", "}"}

\* A pattern "(a|b|c)": one group spanning the whole pattern.
IsGroupPattern(p) ==
    /\ Len(p) >= 2 /\ p[1] = "(" /\ p[Len(p)] = ")"
    /\ \A i \in 2..(Len(p) - 1) : p[i] \notin {"(", ")"}

Alternatives(p) == Split(p, "|")

\* Does the regular expression ^p$ find a match in the token?  Covers the
\* patterns the repository registers: a literal, a parenthesised alternation
\* of literals, and a bare alternation of literals (where ^ binds to the
\* first alternative only and $ to the last only).
RegexFinds(p, token) ==
    IF IsGroupPattern(p)
    THEN LET alts == Alternatives(SubSeq(p, 2, Len(p) - 1))
         IN \E i \in 1..Len(alts) : alts[i] = token
    ELSE LET alts == Alternatives(p)
             n == Len(alts)
         IN IF n = 1 THEN alts[1] = token
            ELSE \E i \in 1..n :
                    IF i = 1 THEN HasPrefix(token, alts[i])
                    ELSE IF i = n THEN HasSuffix(token, alts[i])
                    ELSE Contains(token, alts[i])

Matches(pattern, commandName) ==
    IF ContainsAny(pattern, MetaChars)
    THEN RegexFinds(pattern, commandName)
    ELSE pattern = commandName

\* The characters regexp.QuoteMeta escapes.
QuoteSet == MetaChars \cup {"\\", ".", "^", "$"}

RECURSIVE QuoteMeta(_)
QuoteMeta(s) ==
    IF s = Empty THEN Empty
    ELSE (IF s[1] \in QuoteSet THEN <<"\\", s[1]>> ELSE <<s[1]>>) \o QuoteMeta(Tail(s))

\* The expression getCachedRegex hands to regexp.MustCompile (lines 177-184):
\* the compiled matcher is identified by its source text.
Compile(pattern) ==
    IF ContainsAny(pattern, MetaChars)
    THEN <<"^">> \o pattern \o <<"$">>
    ELSE <<"^">> \o QuoteMeta(pattern) \o <<"$">>

----------------------------------------------------------------------------
(* Command registry *)

NilCmd == [Name |-> <<"<nil>">>, nil |-> TRUE]

IsNil(cmd) == "nil" \in DOMAIN cmd

\* Mutant: no duplicate check.
NewCommands_noDupCheck(ls, cmd) ==
    IF IsNil(cmd) THEN ls
    ELSE IF cmd.Name = Empty THEN ls
    ELSE Append(ls, cmd)

\* Mutant: a spec without a name is accepted.
NewCommands_acceptEmpty(ls, cmd) ==
    IF IsNil(cmd) THEN ls
    ELSE IF \E k \in 1..Len(ls) : ls[k].Name = cmd.Name THEN ls
    ELSE Append(ls, cmd)

\* Mutant: an accepted spec is put in front.
NewCommands_prepend(ls, cmd) ==
    IF IsNil(cmd) THEN ls
    ELSE IF cmd.Name = Empty THEN ls
    ELSE IF \E k \in 1..Len(ls) : ls[k].Name = cmd.Name THEN ls
    ELSE <<cmd>> \o ls

NewCommands(ls, cmd) ==
    IF IsNil(cmd) THEN ls
    ELSE IF cmd.Name = Empty THEN ls
    ELSE IF \E k \in 1..Len(ls) : ls[k].Name = cmd.Name THEN ls
    ELSE Append(ls, cmd)

RECURSIVE RegisterAll(_, _)
RegisterAll(ls, cmds) ==
    IF cmds = <<>> THEN ls ELSE RegisterAll(NewCommands(ls, cmds[1]), Tail(cmds))

HasCommandIn(ls, name) ==
    IF name = Empty THEN FALSE
    ELSE LET pr == ExtractPrefix(name)
             commandName == IF pr.ok THEN TrimSpace(TrimPrefix(name, pr.prefix)) ELSE name
         IN \E k \in 1..Len(ls) : ls[k].Name # Empty /\ Matches(ls[k].Name, commandName)

GetList == lists

HasCommand(name) == HasCommandIn(lists, name)

----------------------------------------------------------------------------
(* Message normaliser *)

\* Mutant: a first token without prefix is kept as the command.
CommandOf_keepToken(body) ==
    LET token == ToLower(Split(body, " ")[1])
        pr == ExtractPrefix(token)
    IN [command |-> TrimSpace(TrimPrefix(token, pr.prefix)), hasPrefix |-> pr.ok]

\* Mutant: the first token is not lower-cased.
CommandOf_noLower(body) ==
    LET token == Split(body, " ")[1]
        pr == ExtractPrefix(token)
    IN [command |-> IF pr.ok THEN TrimSpace(TrimPrefix(token, pr.prefix)) ELSE Empty,
        hasPrefix |-> pr.ok]

\* Command extraction (lines 48-65): parts[0] of strings.Split(body, " "),
\* lower-cased, with its prefix removed and white space trimmed.
CommandOf(body) ==
    LET parts == Split(body, " ")
        token == ToLower(parts[1])
        pr == ExtractPrefix(token)
    IN [command |-> IF pr.ok THEN TrimSpace(TrimPrefix(token, pr.prefix)) ELSE Empty,
        hasPrefix |-> pr.ok]

\* Mutant: the sender must equal the owner's digits.
IsOwnerIn_exact(owners, user) ==
    \E k \in 1..Len(owners) : owners[k] # Empty /\ FilterDigits(owners[k]) = user

\* Owner classification (lines 67-76).
IsOwnerIn(owners, user) ==
    \E k \in 1..Len(owners) : owners[k] # Empty /\ Contains(FilterDigits(owners[k]), user)

\* Mention removal (lines 78-84).
BodyOf(raw) ==
    IF HasPrefix(raw, BotMention) THEN Trim(TrimPrefix(raw, BotMention), " ") ELSE raw

\* helpers.ArrayFilter(arr, x): the elements of arr other than x.
ArrayFilter(arr, x) == SelectSeq(arr, LAMBDA a : a # x)

\* Mutant: the arguments are always the whole body.
TextArgsOf_wholeBody(ls, raw, body) ==
    [text |-> body, args |-> ArrayFilter(Split(body, " "), Empty)]

\* Text and Args (lines 86-94).
TextArgsOf(ls, raw, body) ==
    LET parts == Split(raw, " ")
        c == CommandOf(raw)
    IN IF c.hasPrefix /\ HasCommandIn(ls, c.command)
       THEN LET text == IF Len(parts) > 1 THEN Join(Tail(parts), " ") ELSE Empty
            IN [text |-> text, args |-> ArrayFilter(Split(text, " "), Empty)]
       ELSE [text |-> body, args |-> ArrayFilter(Split(body, " "), Empty)]

NoMessage == [media |-> "", nil |-> TRUE]

\* helpers.ParseQuotedMessage: the quoted message of the payload, or nil.
ParseQuotedMessage(ev) == IF ev.quoted THEN [media |-> ev.quotedMedia] ELSE NoMessage

\* helpers.GetMediaType: the media kind a message carries, "" for none.
GetMediaType(message) == message.media

\* Mutant: the message's own media is preferred over the quoted message's.
MediaOf_ownFirst(ev) ==
    IF ev.media # "" THEN ev.media ELSE GetMediaType(ParseQuotedMessage(ev))

\* Attached media kind (lines 98-108).
MediaOf(ev) ==
    LET quotedMsg == ParseQuotedMessage(ev)
    IN IF ~IsNil(quotedMsg) THEN GetMediaType(quotedMsg) ELSE GetMediaType([media |-> ev.media])

NilEvent == [nil |-> TRUE]

NilMessage == [nil |-> TRUE]

SerializeMessage(ev) ==
    IF IsNil(ev) THEN NilMessage
    ELSE
    LET c == CommandOf(ev.body)
        body == BodyOf(ev.body)
        ta == TextArgsOf(lists, ev.body, body)
    IN [Body |-> body, Command |-> c.command, Text |-> ta.text, Args |-> ta.args,
        IsOwner |-> IsOwnerIn(Owner, ev.sender),
        IsGroup |-> ev.isGroup, IsMedia |-> MediaOf(ev), Message |-> ev]

----------------------------------------------------------------------------
(* Permission and precondition gate, one operator per check of ExecuteCommand *)

\* Mutant: the global mode check is missing.
ModeGateAborts_never(pm, m) == FALSE

ModeGateAborts(pm, m) == ~pm /\ ~m.IsOwner

\* Mutant: the prefix check is inverted and skips specs that require a prefix.
PrefixGateSkips_inverted(cmd, prefix) == cmd.IsPrefix

PrefixGateSkips(cmd, prefix) ==
    LET cmdWithPref == cmd.IsPrefix /\ prefix # Empty
        cmdWithoutPref == ~cmd.IsPrefix
    IN ~cmdWithPref /\ ~cmdWithoutPref

\* Mutant: the owner check is missing.
OwnerGateSkips_never(cmd, m) == FALSE

OwnerGateSkips(cmd, m) == cmd.IsOwner /\ ~m.IsOwner

\* Mutant: the query check is missing.
QueryGateRejects_never(cmd, m) == FALSE

QueryGateRejects(cmd, m) == cmd.IsQuery /\ m.Text = Empty

\* Mutant: the group check is missing.
GroupGateRejects_never(cmd, m) == FALSE

GroupGateRejects(cmd, m) == cmd.IsGroup /\ ~m.IsGroup

PrivateGateRejects(cmd, m) == cmd.IsPrivate /\ m.IsGroup

\* Mutant: the media check is missing.
MediaGateRejects_never(cmd, m) == FALSE

MediaGateRejects(cmd, m) == cmd.IsMedia /\ m.IsMedia = ""

Ev(e, k, w) == [ev |-> e, spec |-> k, what |-> w]

\* Mutant: a reply whose send failed is sent again.
Reply_retry(k, w) ==
    IF k \in netDown THEN <<Ev("reply", k, w), Ev("printerr", k, w), Ev("reply", k, w)>>
    ELSE <<Ev("reply", k, w)>>

\* m.Reply (libs/message.go:136-160): one SendText; an error is printed and
\* returned to the caller.
Reply(k, w) ==
    <<Ev("reply", k, w)>> \o (IF k \in netDown THEN <<Ev("printerr", k, w)>> ELSE <<>>)

\* m.React (libs/message.go:161-167): one SendMessage, its error returned.
React(k, w) == <<Ev("react", k, w)>>

\* c.WA.MarkRead of the originating message.
MarkRead(k) == <<Ev("markread", k, "")>>

\* Mutant: a rejection notice ends the dispatch.
AfterReject_abort(k) == "abort"

\* Mutant: a rejection whose notice could not be sent ends the dispatch.
AfterReject_abortOnError(k) == IF k \in netDown THEN "abort" ELSE "skip"

\* After a rejection notice the loop continues with the next spec; the result
\* of m.Reply is dropped (lines 277-298).
AfterReject(k) == "skip"

\* The checks of one matched spec, in source order.  `out` is "abort" (return
\* from ExecuteCommand), "skip" (continue with the next spec) or "pass".
Gate(cmd, k, m, prefix, pm) ==
    IF ModeGateAborts(pm, m) THEN [out |-> "abort", log |-> <<>>]
    ELSE IF PrefixGateSkips(cmd, prefix) THEN [out |-> "skip", log |-> <<>>]
    ELSE IF OwnerGateSkips(cmd, m) THEN [out |-> "skip", log |-> <<>>]
    ELSE IF QueryGateRejects(cmd, m)
         THEN [out |-> AfterReject(k), log |-> Reply(k, "query")]
    ELSE IF GroupGateRejects(cmd, m)
         THEN [out |-> AfterReject(k), log |-> Reply(k, "group")]
    ELSE IF PrivateGateRejects(cmd, m)
         THEN [out |-> AfterReject(k), log |-> Reply(k, "private")]
    ELSE IF MediaGateRejects(cmd, m)
         THEN [out |-> AfterReject(k), log |-> Reply(k, "media")]
    ELSE [out |-> "pass",
          log |-> IF cmd.IsWait THEN React(k, "wait") ELSE <<>>]

\* Is the spec at registry index k a candidate for the command name (lines 243-246)?
Candidate(cmd, commandName) == Matches(cmd.Name, commandName) /\ cmd.Execute # "nil"

\* The loop of ExecuteCommand from registry index k on, up to the point where
\* it returns ("abort"), falls out of the loop ("end") or starts the goroutine
\* that runs cmd.Execute ("invoke", at index `at`).
RECURSIVE ScanFrom(_, _, _, _, _)
ScanFrom(ls, k, m, prefix, pm) ==
    IF k > Len(ls) THEN [out |-> "end", at |-> 0, log |-> <<>>]
    ELSE LET cmd == ls[k]
             before == IF cmd.Before THEN <<Ev("before", k, "")>> ELSE <<>>
         IN IF ~Candidate(cmd, m.Command)
            THEN LET r == ScanFrom(ls, k + 1, m, prefix, pm)
                 IN [r EXCEPT !.log = before \o @]
            ELSE LET g == Gate(cmd, k, m, prefix, pm)
                 IN IF g.out = "abort" THEN [out |-> "abort", at |-> k, log |-> before \o g.log]
                    ELSE IF g.out = "pass"
                    THEN [out |-> "invoke", at |-> k,
                          log |-> before \o g.log \o <<Ev("invoke", k, "")>>]
                    ELSE LET r == ScanFrom(ls, k + 1, m, prefix, pm)
                         IN [r EXCEPT !.log = before \o g.log \o @]

----------------------------------------------------------------------------
(* Inputs: registered specs and inbound events *)

S_ping == <<"p", "i", "n", "g">>

S_ping_p == <<"(", "p", "i", "n", "g", "|", "p", ")">>

S_p == <<"p">>

Cmd(name, flags, execute) ==
    [Name |-> name, Execute |-> execute,
     IsPrefix |-> "prefix" \in flags, IsOwner |-> "owner" \in flags,
     IsQuery |-> "query" \in flags, IsGroup |-> "group" \in flags,
     IsPrivate |-> "private" \in flags, IsMedia |-> "media" \in flags,
     IsWait |-> "wait" \in flags, Before |-> "before" \in flags]

\* Specs offered to NewCommands in the gate model: every precondition flag
\* alone, some combinations, a spec without handler, a hook-only spec with an
\* empty name (commands/Auto), a nil spec, and overlapping patterns.
GateCmds ==
    {Cmd(S_ping, f, "hA") : f \in {{"prefix"}, {"prefix", "owner"}, {"prefix", "query"},
                                   {"prefix", "group"}, {"prefix", "private"},
                                   {"prefix", "media"}, {"prefix", "query", "media"},
                                   {"prefix", "wait"}, {"prefix", "before"}, {}}}
    \cup {Cmd(S_ping, {"prefix", "before"}, "nil")}
    \cup {Cmd(S_ping_p, f, "hB") : f \in {{"prefix"}, {"prefix", "owner"},
                                          {"prefix", "media"}, {}}}
    \cup {Cmd(S_p, {"prefix", "group"}, "hC")}
    \cup {Cmd(Empty, {"before"}, "nil"), NilCmd}

\* Specs offered to NewCommands in the worker-pool model.
PoolCmds ==
    {Cmd(S_ping, {"prefix", "wait"}, "hA"), Cmd(S_ping_p, {"prefix", "owner"}, "hB")}

SenderOwner == <<"2", "8">>

SenderOther == <<"9">>

Event(body, sender, isGroup, media) ==
    [body |-> body, sender |-> sender, isGroup |-> isGroup, media |-> media,
     quoted |-> FALSE, quotedMedia |-> ""]

GateEvents ==
    {Event(b, s, g, md) :
        b \in {<<".", "p", "i", "n", "g">>, <<".", "p", "i", "n", "g", " ", "q">>,
               <<"!", "P">>, <<"p", "i", "n", "g">>, <<".", "x">>,
               <<"@", "7", " ", ".", "p", "i", "n", "g">>},
        s \in {SenderOwner, SenderOther}, g \in BOOLEAN, md \in {"", "image"}}

PoolEvents ==
    {Event(<<".", "p", "i", "n", "g">>, SenderOther, FALSE, ""),
     Event(<<"!", "P">>, SenderOwner, FALSE, ""),
     Event(<<"p", "i", "n", "g">>, SenderOther, FALSE, "")}

----------------------------------------------------------------------------
(* Dispatcher *)

Ids == 1..Len(msgs)

Workers == 1..NumWorkers

Inline == -1

WorkerBusy(w) == \E i \in Ids : runner[i] = w /\ pc[i] \in {"exec", "wait"}

\* Mutant: the `return` after the executed command is missing, the loop goes on.
AfterExecution_continue(k) == [pc |-> "exec", pos |-> k + 1]

\* Where the dispatch of a message goes once the matched handler has reported
\* its result (the `return` of line 333).
AfterExecution(k) == [pc |-> "done", pos |-> k]

\* Mutant: the message is marked read whatever the handler returned.
CompletionEffects_markReadAlways(cmd, k, ok) ==
    IF ~cmd.IsWait THEN <<>>
    ELSE IF ok THEN MarkRead(k) \o React(k, "clear")
    ELSE MarkRead(k) \o React(k, "fail")

\* The side effects of the `done` branch of the select (lines 314-325); the
\* reaction with the empty emoji removes the wait indicator.
CompletionEffects(cmd, k, ok) ==
    (IF cmd.IsWait /\ ~ok THEN React(k, "fail") ELSE <<>>) \o
    (IF cmd.IsWait /\ ok THEN MarkRead(k) \o React(k, "clear") ELSE <<>>)

\* processingStats.processed once ExecuteCommand has returned for message i:
\* processMessage increments it (lines 88-91); the goroutine RegisterHandler
\* starts when the queue is full calls ExecuteCommand alone (line 142).
ProcessedAfter(i) == IF runner[i] \in Workers THEN processed + 1 ELSE processed

\* Mutant: the select has no time.After branch.
TimeoutEnabled_never(i) == FALSE

\* The timeout race of lines 313-330: may the timeout branch be taken?
TimeoutEnabled(i) == pc[i] = "wait"

\* Mutant: the queue is unbounded.
EnqueueSucceeds_always(q) == TRUE

\* `case messageQueue <- m` of the select with default (lines 137-143): the
\* send is taken when the buffer has room.
EnqueueSucceeds(q) == Len(q) < QueueCap

\* The callback after normalising the event to m (lines 134-145): enqueue
\* without blocking, or run ExecuteCommand on a new goroutine when the queue
\* is full.
EnqueueOrSpawn(m) ==
    LET isCmd == m.Command # Empty /\ HasCommand(m.Command)
        queued == isCmd /\ EnqueueSucceeds(queue)
        i == Len(msgs) + 1
    IN /\ ~crashed
       /\ msgs' = Append(msgs, m)
       /\ queue' = IF queued THEN Append(queue, i) ELSE queue
       /\ pc' = Append(pc, IF ~isCmd THEN "ignored" ELSE IF queued THEN "queued" ELSE "exec")
       /\ runner' = Append(runner, IF isCmd /\ ~queued THEN Inline ELSE 0)
       /\ scanPos' = Append(scanPos, 1)
       /\ handler' = Append(handler, "none")
       /\ doneCh' = Append(doneCh, "empty")
       /\ log' = Append(log, <<>>)
       /\ UNCHANGED <<processed, commandCache, cleanups, netDown, envPublic, envFile, calls, ret, lists, publicMode, crashed,
                   cacheLock, lookers, compiles,
                   pluginManager, pmCalls,
                   ds, dsCalls,
                   users, now, econRet>>

\* The event callback for *events.Message (RegisterHandler, lines 108-145).
Arrive(ev) == EnqueueOrSpawn(SerializeMessage(ev))

\* A pool worker receives from messageQueue and enters processMessage, which
\* re-checks the command and calls ExecuteCommand.
Dequeue(w) ==
    /\ ~crashed
    /\ ~WorkerBusy(w)
    /\ queue # <<>>
    /\ LET i == Head(queue)
           m == msgs[i]
       IN /\ queue' = Tail(queue)
          /\ pc' = [pc EXCEPT ![i] = IF m.Command # Empty /\ HasCommand(m.Command)
                                     THEN "exec" ELSE "done"]
          /\ runner' = [runner EXCEPT ![i] = w]
    /\ UNCHANGED <<processed, commandCache, cleanups, netDown, envPublic, envFile, calls, ret, lists, publicMode, msgs, scanPos, handler, doneCh, log, crashed,
                   cacheLock, lookers, compiles,
                   pluginManager, pmCalls,
                   ds, dsCalls,
                   users, now, econRet>>

\* The keys of the map commandCache.
CacheKeys(cache) == {e.key : e \in cache}

\* commandCache[pattern] = compiled (line 186).
CachePut(cache, pattern, compiled) ==
    {e \in cache : e.key # pattern} \cup {[key |-> pattern, re |-> compiled]}

\* Mutant: the cleanup drops one pattern instead of all.
CleanupResult_dropOne(cache) ==
    IF Cardinality(cache) > CacheKeep THEN cache \ {CHOOSE p \in cache : TRUE} ELSE cache

\* cleanupCommandCache (lines 197-208): a new empty map when the cache holds
\* more than CacheKeep patterns, else no change.
CleanupResult(cache) == IF Cardinality(cache) > CacheKeep THEN {} ELSE cache

\* getCachedRegex (lines 157-194) on the cache c.cache: a hit changes nothing,
\* a miss stores the pattern and starts a cleanup goroutine when the cache
\* then holds more than CacheTrigger patterns.
CacheLookup(c, pattern) ==
    LET hit == pattern \in CacheKeys(c.cache)
        cache == IF hit THEN c.cache ELSE CachePut(c.cache, pattern, Compile(pattern))
        spawn == ~hit /\ Cardinality(cache) > CacheTrigger
    IN [cache |-> cache, spawned |-> c.spawned + (IF spawn THEN 1 ELSE 0)]

RECURSIVE CacheLookups(_, _)
CacheLookups(c, patterns) ==
    IF patterns = <<>> THEN c
    ELSE CacheLookups(CacheLookup(c, patterns[1]), Tail(patterns))

\* Mutant: the regex is cached under the command token of the message.
LookupKeys_byCommand(ls, from, last, m) == [n \in 1..(last - from + 1) |-> m.Command]

\* The patterns the registry loop passes to getCachedRegex (line 243) for the
\* specs at indices from..last: cmd.Name of each.
LookupKeys(ls, from, last, m) == [n \in 1..(last - from + 1) |-> ls[from + n - 1].Name]

\* ExecuteCommand from its entry to the select statement: the early returns,
\* the registry loop with hooks, pattern lookups and gate, and the start of
\* the handler goroutine; when the loop ends without a return, the periodic
\* cleanup of lines 338-341 (`tick`: the clock is at a multiple of 2000).
Scan(i) ==
    /\ ~crashed
    /\ pc[i] = "exec"
    /\ LET m == msgs[i]
           pr == ExtractPrefix(m.Body)
           r == ScanFrom(lists, scanPos[i], m, pr.prefix, publicMode)
           last == IF r.out = "end" THEN Len(lists) ELSE r.at
           c == CacheLookups([cache |-> commandCache, spawned |-> 0],
                             LookupKeys(lists, scanPos[i], last, m))
       IN IF m.Command = Empty \/ ~pr.ok
          THEN /\ pc' = [pc EXCEPT ![i] = "done"]
               /\ processed' = ProcessedAfter(i)
               /\ UNCHANGED <<commandCache, cleanups, scanPos, handler, log>>
          ELSE /\ log' = [log EXCEPT ![i] = @ \o r.log]
               /\ commandCache' = c.cache
               /\ IF r.out = "invoke"
                  THEN /\ pc' = [pc EXCEPT ![i] = "wait"]
                       /\ scanPos' = [scanPos EXCEPT ![i] = r.at]
                       /\ handler' = [handler EXCEPT ![i] = "running"]
                       /\ cleanups' = cleanups + c.spawned
                       /\ UNCHANGED processed
                  ELSE /\ pc' = [pc EXCEPT ![i] = "done"]
                       /\ processed' = ProcessedAfter(i)
                       /\ \E tick \in BOOLEAN :
                             /\ tick => (r.out = "end" /\ cleanups < MaxCleanups)
                             /\ cleanups' = cleanups + c.spawned + (IF tick THEN 1 ELSE 0)
                       /\ UNCHANGED <<scanPos, handler>>
    /\ UNCHANGED <<netDown, envPublic, envFile, calls, ret, lists, publicMode, msgs, queue,
                   runner, doneCh, crashed,
                   cacheLock, lookers, compiles,
                   pluginManager, pmCalls,
                   ds, dsCalls,
                   users, now, econRet>>

\* A goroutine started with `go cleanupCommandCache()` runs.
CleanupCommandCache ==
    /\ ~crashed
    /\ cleanups > 0
    /\ cleanups' = cleanups - 1
    /\ commandCache' = CleanupResult(commandCache)
    /\ UNCHANGED <<processed, netDown, envPublic, envFile, calls, ret, lists, publicMode, msgs,
                   queue, pc, runner, scanPos, handler, doneCh, log, crashed,
                   cacheLock, lookers, compiles,
                   pluginManager, pmCalls,
                   ds, dsCalls,
                   users, now, econRet>>

\* The handlers whose body is modelled (the two mode commands); the others
\* are opaque and return either result.
ModeHandlers == {"modeConfig", "modeEnv"}

\* Mutant: `done` is unbuffered, a send needs the select to be receiving.
DoneSendEnabled_unbuffered(i) == pc[i] = "wait"

\* `done := make(chan bool, 1)` (line 306): a send proceeds while the buffer
\* of one has room.
DoneSendEnabled(i) == doneCh[i] = "empty"

\* cmd.Execute returns ok on its own goroutine and sends it on `done`
\* (buffered, so the send never blocks, also after a timeout).
HandlerReturn(i, ok) ==
    /\ ~crashed
    /\ handler[i] = "running"
    /\ DoneSendEnabled(i)
    /\ lists[scanPos[i]].Execute \notin ModeHandlers
    /\ handler' = [handler EXCEPT ![i] = "returned"]
    /\ doneCh' = [doneCh EXCEPT ![i] = IF ok THEN "true" ELSE "false"]
    /\ UNCHANGED <<processed, commandCache, cleanups, netDown, envPublic, envFile, calls, ret, lists, publicMode, msgs, queue, pc, runner, scanPos, log, crashed,
                   cacheLock, lookers, compiles,
                   pluginManager, pmCalls,
                   ds, dsCalls,
                   users, now, econRet>>

\* cmd.Execute panics on its own goroutine.  The deferred recover of
\* ExecuteCommand belongs to the dispatching goroutine and does not see it:
\* the Go runtime terminates the process, with every goroutine and the queue.
HandlerPanic(i) ==
    /\ ~crashed
    /\ handler[i] = "running"
    /\ crashed' = TRUE
    /\ handler' = [j \in Ids |-> IF j = i THEN "panicked"
                                 ELSE IF handler[j] = "running" THEN "killed" ELSE handler[j]]
    /\ pc' = [j \in Ids |-> IF pc[j] = "queued" THEN "lost"
                            ELSE IF pc[j] \in {"exec", "wait"} THEN "killed" ELSE pc[j]]
    /\ queue' = <<>>
    /\ UNCHANGED <<processed, commandCache, cleanups, netDown, envPublic, envFile, calls, ret, lists, publicMode, msgs, runner, scanPos, doneCh, log,
                   cacheLock, lookers, compiles,
                   pluginManager, pmCalls,
                   ds, dsCalls,
                   users, now, econRet>>

\* The select receives the handler's result in time (lines 314-325, 333).
Complete(i) ==
    /\ ~crashed
    /\ pc[i] = "wait"
    /\ doneCh[i] # "empty"
    /\ LET cmd == lists[scanPos[i]]
           k == scanPos[i]
           ok == doneCh[i] = "true"
           next == AfterExecution(k)
       IN /\ log' = [log EXCEPT ![i] = @ \o CompletionEffects(cmd, k, ok)]
          /\ pc' = [pc EXCEPT ![i] = next.pc]
          /\ scanPos' = [scanPos EXCEPT ![i] = next.pos]
          /\ processed' = IF next.pc = "done" THEN ProcessedAfter(i) ELSE processed
    /\ doneCh' = [doneCh EXCEPT ![i] = "empty"]
    /\ UNCHANGED <<commandCache, cleanups, netDown, envPublic, envFile, calls, ret, lists, publicMode, msgs, queue, runner, handler, crashed,
                   cacheLock, lookers, compiles,
                   pluginManager, pmCalls,
                   ds, dsCalls,
                   users, now, econRet>>

\* The select takes the time.After branch (lines 326-329): the handler is
\* abandoned, not cancelled.
Timeout(i) ==
    /\ ~crashed
    /\ TimeoutEnabled(i)
    /\ log' = [log EXCEPT ![i] = @ \o React(scanPos[i], "timeout")]
    /\ pc' = [pc EXCEPT ![i] = "done"]
    /\ processed' = ProcessedAfter(i)
    /\ UNCHANGED <<commandCache, cleanups, netDown, envPublic, envFile, calls, ret, lists, publicMode, msgs, queue, runner, scanPos, handler, doneCh, crashed,
                   cacheLock, lookers, compiles,
                   pluginManager, pmCalls,
                   ds, dsCalls,
                   users, now, econRet>>

Steps ==
    \/ \E w \in Workers : Dequeue(w)
    \/ \E i \in Ids : Scan(i)
    \/ \E i \in Ids, ok \in BOOLEAN : HandlerReturn(i, ok)
    \/ \E i \in Ids : HandlerPanic(i)
    \/ \E i \in Ids : Complete(i)
    \/ \E i \in Ids : Timeout(i)
    \/ CleanupCommandCache

NoCall == [fn |-> "none", in |-> <<>>, out |-> <<>>]

\* PUBLIC=false, the setting README.md documents.
InitEnv == envPublic = "false" /\ envFile = "false"

InitDispatcher ==
    /\ msgs = <<>> /\ queue = <<>> /\ pc = <<>> /\ runner = <<>> /\ scanPos = <<>>
    /\ handler = <<>> /\ doneCh = <<>> /\ log = <<>>
    /\ crashed = FALSE
    /\ calls = <<>> /\ ret = NoCall
    /\ processed = 0 /\ commandCache = {} /\ cleanups = 0
    /\ netDown = {}
    /\ users = [u \in EconUsers |-> NewUser]
    /\ now = RobCooldown
    /\ econRet = NoEconRet
    /\ ds = [cache |-> {}, cacheMutex |-> [readers |-> {}, writer |-> 0]]
    /\ dsCalls = [g \in DsCallers |-> NoDsCall]
    /\ pluginManager = [plugins |-> {}, commands |-> {}, mutex |-> [readers |-> {}, writer |-> 0]]
    /\ pmCalls = [g \in PmCallers |-> NoPmCall]
    /\ cacheLock = [readers |-> {}, writer |-> 0]
    /\ lookers = [g \in Lookers |-> [pc |-> "idle", pattern |-> Empty]]
    /\ compiles = {}

\* Worker-pool model: a small registry, up to MaxMsgs inbound events.
Init ==
    /\ \E cmds \in [1..MaxSpecs -> PoolCmds] : lists = RegisterAll(<<>>, cmds)
    /\ publicMode \in BOOLEAN
    /\ InitDispatcher
    /\ InitEnv

Next ==
    \/ \E ev \in PoolEvents : Len(msgs) < MaxMsgs /\ Arrive(ev)
    \/ Steps

Spec == Init /\ [][Next]_vars

\* Gate model: every registry NewCommands builds from GateCmds, one inbound
\* event dispatched on its own.
InitGate ==
    /\ \E cmds \in [1..MaxSpecs -> GateCmds] : lists = RegisterAll(<<>>, cmds)
    /\ publicMode \in BOOLEAN
    /\ InitDispatcher
    /\ InitEnv

NextGate ==
    \/ \E ev \in GateEvents : msgs = <<>> /\ Arrive(ev)
    \/ Steps

SpecGate == InitGate /\ [][NextGate]_vars

----------------------------------------------------------------------------
(* Observations on the per-message log *)

Logged(i, e) == \E n \in 1..Len(log[i]) : log[i][n] = e

Invokes(i) == SelectSeq(log[i], LAMBDA e : e.ev = "invoke")

Replies(i) == SelectSeq(log[i], LAMBDA e : e.ev = "reply")

\* What the dispatch did for the spec at registry index k, hooks aside.
SpecEffects(i, k) == SelectSeq(log[i], LAMBDA e : e.spec = k /\ e.ev # "before")

CarriedPrefix(m) == \E n \in 1..Len(Prefixes) : HasPrefix(m.Body, Prefixes[n])

Accepted(i) == pc[i] # "ignored"

\* ExecuteCommand was entered for the message.
Entered(i) == pc[i] \in {"exec", "wait", "done", "killed"}

\* All preconditions of a spec that are flagged hold for the message.
PreconditionsHold(cmd, m) ==
    /\ cmd.IsOwner => m.IsOwner
    /\ cmd.IsQuery => m.Text # Empty
    /\ cmd.IsGroup => m.IsGroup
    /\ cmd.IsPrivate => ~m.IsGroup
    /\ cmd.IsMedia => m.IsMedia # ""

----------------------------------------------------------------------------
(* Claims *)

\* C1: a handler that panics never crashes the worker or the process: the
\* panic is recovered, the sender gets the generic error reply and the
\* dispatch of that message terminates.
C1_PanicIsolated ==
    \A i \in Ids : handler[i] = "panicked" =>
        /\ ~crashed
        /\ pc[i] = "done" => Logged(i, Ev("reply", scanPos[i], "error"))

\* C2: no command is ever dropped: every message accepted by the event
\* callback has been run through ExecuteCommand, or is waiting in the queue of
\* a running process whose workers will receive it.
C2_NoCommandDropped ==
    \A i \in Ids : Accepted(i) => (Entered(i) \/ (~crashed /\ pc[i] = "queued"))

\* C3: at most one handler invocation occurs for any single message.
C3_AtMostOneHandler == \A i \in Ids : Len(Invokes(i)) <= 1

C3_Witness ==
    \E i \in Ids :
        /\ pc[i] = "done" /\ Len(Invokes(i)) = 1
        /\ Len(lists) >= 2
        /\ \A k \in 1..Len(lists) :
              Candidate(lists[k], msgs[i].Command) /\ PreconditionsHold(lists[k], msgs[i])

\* C4: a dispatch that waits for its handler can always take the timeout
\* branch, and when it stops waiting for a handler that has not returned it
\* has sent the timeout reaction, has returned, and its worker is free to
\* receive from the queue again.
C4_TimeoutFreesWorker ==
    /\ [](\A i \in Ids : pc[i] = "wait" => ENABLED Timeout(i))
    /\ [][\A i \in Ids :
            (pc[i] = "wait" /\ handler[i] = "running" /\ pc'[i] # "wait" /\ ~crashed') =>
                /\ pc'[i] = "done"
                /\ log'[i] = Append(log[i], Ev("react", scanPos[i], "timeout"))
                /\ (runner[i] \in Workers =>
                       ~(\E j \in Ids : runner'[j] = runner[i] /\ pc'[j] \in {"exec", "wait"}))
                /\ queue' = queue]_vars

C4_Witness ==
    \E i \in Ids, j \in Ids :
        /\ i # j /\ runner[i] \in Workers /\ runner[j] = runner[i]
        /\ Logged(i, Ev("react", scanPos[i], "timeout"))
        /\ handler[i] = "running"
        /\ pc[j] = "done" /\ Len(Invokes(j)) = 1

\* C5: in private mode a message of a non-owner causes no handler invocation,
\* no reply and no reaction, and nothing happens for any spec after the first
\* matching one.
C5_PrivateModeAborts ==
    \A i \in Ids : (~publicMode /\ ~msgs[i].IsOwner) =>
        \A n \in 1..Len(log[i]) :
            /\ log[i][n].ev = "before"
            /\ \A k \in 1..Len(lists) :
                  Candidate(lists[k], msgs[i].Command) => log[i][n].spec <= k

C5_Witness ==
    \E i \in Ids :
        /\ ~publicMode /\ ~msgs[i].IsOwner /\ pc[i] = "done"
        /\ Len(lists) = 2
        /\ Candidate(lists[1], msgs[i].Command) /\ PreconditionsHold(lists[1], msgs[i])
        /\ Candidate(lists[2], msgs[i].Command)

\* C6: the handler of an OwnerOnly spec is never invoked for a sender that is
\* not owner, and the dispatch sends nothing on behalf of that spec.
C6_OwnerOnlySilent ==
    \A i \in Ids : \A k \in 1..Len(lists) :
        (lists[k].IsOwner /\ ~msgs[i].IsOwner) => SpecEffects(i, k) = <<>>

C6_Witness ==
    \E i \in Ids : \E k \in 1..Len(lists) :
        /\ publicMode /\ pc[i] = "done" /\ ~msgs[i].IsOwner
        /\ lists[k].IsOwner /\ Candidate(lists[k], msgs[i].Command)
        /\ \A j \in 1..(k - 1) : ~Logged(i, Ev("invoke", j, ""))

\* C7: a handler is invoked only if every precondition flag set on its spec
\* holds for the message.
C7_AllPreconditions ==
    \A i \in Ids : \A k \in 1..Len(lists) :
        Logged(i, Ev("invoke", k, "")) => PreconditionsHold(lists[k], msgs[i])

C7_Witness ==
    \E i \in Ids : \E k \in 1..Len(lists) :
        /\ Logged(i, Ev("invoke", k, ""))
        /\ lists[k].IsQuery /\ lists[k].IsMedia

\* The dispatch of the message got to the media check of spec k: the spec is
\* a candidate, no earlier spec was executed, the mode gate did not abort and
\* the earlier checks of the spec hold.
ReachedMediaCheck(i, k) ==
    LET cmd == lists[k]
        m == msgs[i]
    IN /\ pc[i] = "done"
       /\ Candidate(cmd, m.Command)
       /\ publicMode \/ m.IsOwner
       /\ \A j \in 1..(k - 1) : ~Logged(i, Ev("invoke", j, ""))
       /\ cmd.IsOwner => m.IsOwner
       /\ cmd.IsQuery => m.Text # Empty
       /\ cmd.IsGroup => m.IsGroup
       /\ cmd.IsPrivate => ~m.IsGroup

\* C8 as stated: a message without media sent to a RequiresMedia command
\* triggers exactly one reply, the media notice, and no handler invocation.
C8_Original ==
    \A i \in Ids : \A k \in 1..Len(lists) :
        (pc[i] = "done" /\ msgs[i].IsMedia = "" /\ lists[k].IsMedia
            /\ Candidate(lists[k], msgs[i].Command)) =>
                /\ Replies(i) = <<Ev("reply", k, "media")>>
                /\ ~Logged(i, Ev("invoke", k, ""))

\* C8 amended: when the dispatch of a message without media reaches the media
\* check of a RequiresMedia spec, it sends exactly one reply for that spec,
\* the media notice, and never invokes that spec's handler.
C8_MediaGate ==
    \A i \in Ids : \A k \in 1..Len(lists) :
        /\ (msgs[i].IsMedia = "" /\ lists[k].IsMedia) => ~Logged(i, Ev("invoke", k, ""))
        /\ (msgs[i].IsMedia = "" /\ lists[k].IsMedia /\ ReachedMediaCheck(i, k)) =>
               SpecEffects(i, k) = <<Ev("reply", k, "media")>>

C8_Witness ==
    \E i \in Ids : \E k \in 1..Len(lists) :
        /\ msgs[i].IsMedia = "" /\ lists[k].IsMedia /\ ReachedMediaCheck(i, k)
        /\ Replies(i) = <<Ev("reply", k, "media")>>

\* C9 as stated: the handler invoked for a message is that of the
\* first-registered spec with a handler whose pattern matches the command token.
C9_Original ==
    \A i \in Ids : \A k \in 1..Len(lists) :
        Logged(i, Ev("invoke", k, "")) =>
            \A j \in 1..(k - 1) : ~Candidate(lists[j], msgs[i].Command)

\* C9 amended: the handler invoked for a message is that of the
\* first-registered spec whose pattern matches, that has a handler and whose
\* preconditions hold; a later matching spec is invoked only when every
\* earlier matching spec has no handler or fails one of its preconditions.
C9_FirstPassingMatch ==
    \A i \in Ids : \A k \in 1..Len(lists) :
        Logged(i, Ev("invoke", k, "")) =>
            \A j \in 1..(k - 1) :
                Matches(lists[j].Name, msgs[i].Command) =>
                    (lists[j].Execute = "nil" \/ ~PreconditionsHold(lists[j], msgs[i]))

C9_Witness ==
    \E i \in Ids :
        /\ Len(lists) = 2 /\ Logged(i, Ev("invoke", 1, "")) /\ pc[i] = "done"
        /\ Candidate(lists[2], msgs[i].Command) /\ PreconditionsHold(lists[2], msgs[i])

\* C10 as stated: a RequiresPrefix spec is executed only for a message that
\* carried a recognised prefix, and a spec without RequiresPrefix only for a
\* message that carried none.
C10_Original ==
    \A i \in Ids : \A k \in 1..Len(lists) :
        Logged(i, Ev("invoke", k, "")) =>
            (lists[k].IsPrefix <=> CarriedPrefix(msgs[i]))

\* C10 amended: every spec, with or without RequiresPrefix, is executed only
\* for a message that carried a recognised prefix.
C10_PrefixAlwaysCarried ==
    \A i \in Ids : \A k \in 1..Len(lists) :
        Logged(i, Ev("invoke", k, "")) => CarriedPrefix(msgs[i])

C10_Witness ==
    \E i \in Ids : \E k \in 1..Len(lists) :
        /\ Logged(i, Ev("invoke", k, "")) /\ ~lists[k].IsPrefix
        /\ CarriedPrefix(msgs[i])

----------------------------------------------------------------------------
(* Normalisation of unprefixed messages *)

FirstToken(ev) == Split(ev.body, " ")[1]

Unprefixed(ev) == \A n \in 1..Len(Prefixes) : ~HasPrefix(FirstToken(ev), Prefixes[n])

\* C11: a message whose first token carries no configured prefix is normalised
\* with an empty Command, is never queued nor dispatched, and no handler (nor
\* any other dispatch effect) happens for it, whatever the registry holds.
C11_UnprefixedIgnored ==
    \A i \in Ids :
        Unprefixed(msgs[i].Message) =>
            /\ msgs[i].Command = Empty
            /\ pc[i] = "ignored"
            /\ log[i] = <<>>
            /\ \A q \in 1..Len(queue) : queue[q] # i

\* An unprefixed "ping" arrived while a spec named "ping" is registered.
C11_Witness ==
    \E i \in Ids :
        /\ msgs[i].Message.body = S_ping
        /\ \E k \in 1..Len(lists) : lists[k].Name = S_ping
        /\ pc[i] = "ignored"

----------------------------------------------------------------------------
(* Registry model: NewCommands and HasCommand called in any order *)

MaxCalls == 3

S_bare == <<"p", "i", "n", "g", "|", "p">>

\* Specs offered to NewCommands: the same name with different handlers, a
\* grouped and an ungrouped alternation, an empty name and a nil spec.
RegistryCmds ==
    {Cmd(S_ping, {"prefix"}, "hA"), Cmd(S_ping, {}, "hB"),
     Cmd(S_ping_p, {"prefix"}, "hB"), Cmd(S_bare, {"prefix"}, "hC"),
     Cmd(S_p, {"prefix"}, "hA"), Cmd(Empty, {"before"}, "hA"), NilCmd}

\* Tokens handed to HasCommand.
LookupTokens ==
    {Empty, S_ping, S_p, <<"p", "i", "n">>, <<"p", "i", "n", "g", "x">>,
     <<"x", "p">>, <<".", "p", "i", "n", "g">>, <<"!", "p">>, <<".">>,
     <<".", "p", "i", "n", "g", "x">>, <<".", " ", "p">>}

Register(cmd) ==
    /\ Len(calls) < MaxCalls
    /\ calls' = Append(calls, cmd)
    /\ lists' = NewCommands(lists, cmd)
    /\ ret' = [fn |-> "NewCommands", in |-> cmd, out |-> <<>>]
    /\ UNCHANGED <<processed, commandCache, cleanups, netDown, envPublic, envFile, publicMode, msgs, queue, pc, runner, scanPos, handler, doneCh, log, crashed,
                   cacheLock, lookers, compiles,
                   pluginManager, pmCalls,
                   ds, dsCalls,
                   users, now, econRet>>

Lookup(name) ==
    /\ ret' = [fn |-> "HasCommand", in |-> name, out |-> HasCommand(name)]
    /\ UNCHANGED <<processed, commandCache, cleanups, netDown, envPublic, envFile, calls, lists, publicMode, msgs, queue, pc, runner, scanPos, handler,
                   doneCh, log, crashed,
                   cacheLock, lookers, compiles,
                   pluginManager, pmCalls,
                   ds, dsCalls,
                   users, now, econRet>>

InitRegistry ==
    /\ lists = <<>>
    /\ publicMode = FALSE
    /\ InitDispatcher
    /\ InitEnv

NextRegistry ==
    \/ \E cmd \in RegistryCmds : Register(cmd)
    \/ \E name \in LookupTokens : Lookup(name)

SpecRegistry == InitRegistry /\ [][NextRegistry]_vars

\* C12: after any sequence of NewCommands calls every registered name is
\* non-empty and occurs exactly once, every non-empty name offered is present,
\* and the entry kept for a name is the first spec offered with that name.
C12_UniqueFirstWins ==
    /\ \A k \in 1..Len(lists) : lists[k].Name # Empty
    /\ \A j, k \in 1..Len(lists) : lists[j].Name = lists[k].Name => j = k
    /\ \A c \in 1..Len(calls) :
          (~IsNil(calls[c]) /\ calls[c].Name # Empty) =>
              \E k \in 1..Len(lists) : lists[k].Name = calls[c].Name
    /\ \A k \in 1..Len(lists) :
          \E c \in 1..Len(calls) :
              /\ calls[c] = lists[k]
              /\ \A d \in 1..(c - 1) : IsNil(calls[d]) \/ calls[d].Name # lists[k].Name

\* "ping" was offered twice with different handlers; one entry, the first.
C12_Witness ==
    /\ Len(calls) >= 2
    /\ calls[1] = Cmd(S_ping, {"prefix"}, "hA")
    /\ calls[2] = Cmd(S_ping, {}, "hB")
    /\ lists = <<calls[1]>>

Rejected(ls, cmd) ==
    IsNil(cmd) \/ cmd.Name = Empty \/ \E k \in 1..Len(ls) : ls[k].Name = cmd.Name

C13_Step ==
    calls' # calls =>
        LET cmd == calls'[Len(calls')]
        IN IF Rejected(lists, cmd) THEN lists' = lists ELSE lists' = Append(lists, cmd)

RECURSIVE AcceptedCalls(_, _)
AcceptedCalls(ls, cs) ==
    IF cs = <<>> THEN ls
    ELSE AcceptedCalls(IF Rejected(ls, cs[1]) THEN ls ELSE Append(ls, cs[1]), Tail(cs))

\* C13: the registry is append-only and ordered: GetList is the accepted specs
\* in the order of their calls, an accepted call appends at the end, and a
\* rejected call (nil, empty name, duplicate name) leaves the list as it was.
C13_AppendOnly ==
    /\ [](calls # <<>> => GetList = AcceptedCalls(<<>>, calls))
    /\ [][C13_Step]_vars

\* Two specs were accepted in order and a third call was rejected.
C13_Witness ==
    /\ Len(calls) = 3
    /\ Len(lists) = 2
    /\ lists[1] = calls[1]
    /\ lists[2] = calls[2]
    /\ Rejected(lists, calls[3])

----------------------------------------------------------------------------
(* Function model: one call of a function of the command path on one input *)

\* Prefix configurations: the default's head, overlapping prefixes in both
\* orders, a letter prefix, an empty prefix (BotConfig.Prefix unset) and none.
PrefixLists ==
    {<< <<".">>, <<"!">> >>, << <<".">>, <<".", ".">> >>, << <<".", ".">>, <<".">> >>,
     << <<"p">> >>, << Empty >>, <<>>}

PrefixTokens ==
    {<<".", "p">>, <<".", ".", "p">>, <<"!", "p">>, <<"p", "i">>, <<"P", "i">>,
     <<" ", ".", "p">>, <<"x", ".">>, Empty}

MatchPatterns == {S_ping, S_ping_p, S_p, S_bare}

MatchTokens ==
    {S_ping, S_p, <<"p", "i", "n">>, <<"p", "i", "n", "g", "x">>, <<"x", "p", "i", "n", "g">>,
     <<"x", "p">>, S_bare, Empty}

CallExtractPrefix(prefixes, command) ==
    /\ ret.fn = "none"
    /\ ret' = [fn |-> "ExtractPrefix", in |-> [prefixes |-> prefixes, command |-> command],
               out |-> ExtractPrefixFrom(prefixes, command)]
    /\ UNCHANGED <<processed, commandCache, cleanups, netDown, envPublic, envFile, calls, lists, publicMode, msgs, queue, pc, runner, scanPos, handler,
                   doneCh, log, crashed,
                   cacheLock, lookers, compiles,
                   pluginManager, pmCalls,
                   ds, dsCalls,
                   users, now, econRet>>

CallMatch(pattern, commandName) ==
    /\ ret.fn = "none"
    /\ ret' = [fn |-> "Match", in |-> [pattern |-> pattern, commandName |-> commandName],
               out |-> Matches(pattern, commandName)]
    /\ UNCHANGED <<processed, commandCache, cleanups, netDown, envPublic, envFile, calls, lists, publicMode, msgs, queue, pc, runner, scanPos, handler,
                   doneCh, log, crashed,
                   cacheLock, lookers, compiles,
                   pluginManager, pmCalls,
                   ds, dsCalls,
                   users, now, econRet>>

IsStringPrefix(p, t) == Len(p) <= Len(t) /\ \A n \in 1..Len(p) : p[n] = t[n]

\* C14: ExtractPrefix returns (p, true) for the first configured prefix p, in
\* configured order, that the token starts with, and ("", false) when it starts
\* with none; the comparison is on the token as given.
C14_FirstPrefixWins ==
    ret.fn = "ExtractPrefix" =>
        LET ps == ret.in.prefixes
            t == ret.in.command
            hits == {n \in 1..Len(ps) : IsStringPrefix(ps[n], t)}
        IN IF hits = {} THEN ret.out = [prefix |-> Empty, ok |-> FALSE]
           ELSE \E n \in hits :
                   /\ \A h \in hits : n <= h
                   /\ ret.out = [prefix |-> ps[n], ok |-> TRUE]

\* With "." configured before "..", the token "..p" resolves to ".".
C14_Witness ==
    /\ ret.fn = "ExtractPrefix"
    /\ ret.in = [prefixes |-> << <<".">>, <<".", ".">> >>, command |-> <<".", ".", "p">>]
    /\ ret.out = [prefix |-> <<".">>, ok |-> TRUE]

\* The token is one of the alternatives of the pattern, the enclosing group
\* of the pattern removed: the whole token is matched by the pattern.
WholeTokenMatch(pattern, token) ==
    LET body == IF IsGroupPattern(pattern) THEN SubSeq(pattern, 2, Len(pattern) - 1)
                ELSE pattern
        alts == Split(body, "|")
    IN \E n \in 1..Len(alts) : alts[n] = token

\* C15: matching is anchored at both ends: a pattern without metacharacter
\* matches exactly the token equal to it, a pattern with one matches exactly
\* the tokens it matches as a whole.
C15_AnchoredMatch ==
    ret.fn = "Match" =>
        (ret.out <=> IF ContainsAny(ret.in.pattern, MetaChars)
                     THEN WholeTokenMatch(ret.in.pattern, ret.in.commandName)
                     ELSE ret.in.pattern = ret.in.commandName)

\* C16: HasCommand(token) is true iff the token, a detected configured prefix
\* removed, is matched as a whole by the pattern of some registered spec; it
\* is false for the empty token and for an empty registry.
C16_LookupWholeMatch ==
    ret.fn = "HasCommand" =>
        LET t == ret.in
            hits == {n \in 1..Len(Prefixes) : IsStringPrefix(Prefixes[n], t)}
            first == CHOOSE n \in hits : \A h \in hits : n <= h
            rest == IF hits = {} THEN t ELSE SubSeq(t, Len(Prefixes[first]) + 1, Len(t))
        IN ret.out <=> /\ t # Empty
                       /\ \E k \in 1..Len(lists) : WholeTokenMatch(lists[k].Name, rest)

----------------------------------------------------------------------------
(* Normaliser inputs *)

QuotedEvent(body, sender, isGroup, media, quotedMedia) ==
    [body |-> body, sender |-> sender, isGroup |-> isGroup, media |-> media,
     quoted |-> TRUE, quotedMedia |-> quotedMedia]

NormBodies ==
    {<<".", "p", "i", "n", "g">>, <<".", "p", "i", "n", "g", " ", "q", " ", "r">>,
     <<".", "p", "i", "n", "g", " ", " ", "q">>, <<".", "p", "i", "n", "g", "\t", "q">>,
     <<".", "x", " ", "q">>, <<"!", "P", " ", "q">>, <<"p", "i", "n", "g", " ", "q">>,
     <<"@", "7", " ", ".", "p", "i", "n", "g", " ", "q">>, <<".">>, Empty,
     <<".", ".", "p", "i", "n", "g">>}

NormEvents ==
    {Event(b, s, FALSE, md) : b \in NormBodies, s \in {SenderOwner, SenderOther},
                              md \in {"", "image"}}
    \cup {QuotedEvent(b, s, FALSE, md, qmd) :
              b \in NormBodies, s \in {SenderOwner, SenderOther},
              md \in {"", "image"}, qmd \in {"", "video"}}

\* Owner configurations (BotConfig.Owner) and sender users (digits of a JID).
OwnerLists ==
    {<< <<"+", "6", "2", "8">> >>, << Empty, <<"6", "-", "2">> >>, << <<"a", "b">> >>,
     << <<"1", "2">>, <<"6", "2", "8">> >>, <<>>}

SenderUsers == {<<"2", "8">>, <<"6", "2">>, <<"6", "2", "8">>, <<"9">>, <<"8", "2">>, Empty}

Serialize(ev) ==
    /\ ret.fn = "none"
    /\ ret' = [fn |-> "SerializeMessage", in |-> ev, out |-> SerializeMessage(ev)]
    /\ UNCHANGED <<processed, commandCache, cleanups, netDown, envPublic, envFile, calls, lists, publicMode, msgs, queue, pc, runner, scanPos, handler,
                   doneCh, log, crashed,
                   cacheLock, lookers, compiles,
                   pluginManager, pmCalls,
                   ds, dsCalls,
                   users, now, econRet>>

ClassifyOwner(owners, user) ==
    /\ ret.fn = "none"
    /\ ret' = [fn |-> "IsOwner", in |-> [owners |-> owners, user |-> user],
               out |-> IsOwnerIn(owners, user)]
    /\ UNCHANGED <<processed, commandCache, cleanups, netDown, envPublic, envFile, calls, lists, publicMode, msgs, queue, pc, runner, scanPos, handler,
                   doneCh, log, crashed,
                   cacheLock, lookers, compiles,
                   pluginManager, pmCalls,
                   ds, dsCalls,
                   users, now, econRet>>

InitFunctions ==
    /\ \E cmds \in [1..MaxSpecs -> RegistryCmds] : lists = RegisterAll(<<>>, cmds)
    /\ publicMode = FALSE
    /\ InitDispatcher
    /\ InitEnv

NextFunctions ==
    \/ \E ps \in PrefixLists, t \in PrefixTokens : CallExtractPrefix(ps, t)
    \/ \E p \in MatchPatterns, t \in MatchTokens : CallMatch(p, t)
    \/ \E ev \in NormEvents : Serialize(ev)
    \/ \E os \in OwnerLists, u \in SenderUsers : ClassifyOwner(os, u)

SpecFunctions == InitFunctions /\ [][NextFunctions]_vars


----------------------------------------------------------------------------
(* Normaliser properties *)

\* The part of s before its first character in seps.
TokenUntil(s, seps) ==
    LET idx == {n \in 1..Len(s) : s[n] \in seps}
    IN IF idx = {} THEN s
       ELSE SubSeq(s, 1, (CHOOSE n \in idx : \A h \in idx : n <= h) - 1)

\* t without the first configured prefix it starts with.
StripFirstPrefix(t) ==
    LET hits == {n \in 1..Len(Prefixes) : IsStringPrefix(Prefixes[n], t)}
        first == CHOOSE n \in hits : \A h \in hits : n <= h
    IN IF hits = {} THEN [ok |-> FALSE, rest |-> Empty]
       ELSE [ok |-> TRUE, rest |-> SubSeq(t, Len(Prefixes[first]) + 1, Len(t))]

NonEmpty(tokens) == SelectSeq(tokens, LAMBDA a : a # Empty)

DigitsOf(s) == SelectSeq(s, LAMBDA c : c \in {"0", "1", "2", "3", "4", "5", "6", "7", "8", "9"})

OccursIn(sub, s) ==
    \E a \in 0..(Len(s) - Len(sub)) : \A n \in 1..Len(sub) : s[a + n] = sub[n]

\* C19: IsOwner is true iff the sender's digits occur as a contiguous substring
\* of the digits of some non-empty configured owner string.
C19_OwnerByContainment ==
    ret.fn = "IsOwner" =>
        (ret.out <=> \E k \in 1..Len(ret.in.owners) :
                        /\ ret.in.owners[k] # Empty
                        /\ OccursIn(DigitsOf(ret.in.user), DigitsOf(ret.in.owners[k])))

\* Sender "28" is owner under the configured owner "+628".
C19_Witness ==
    /\ ret.fn = "IsOwner"
    /\ ret.in = [owners |-> << <<"+", "6", "2", "8">> >>, user |-> <<"2", "8">>]
    /\ ret.out = TRUE

\* C20: the media kind is the quoted message's whenever a quote exists, the
\* message's own only when there is no quote, and empty when neither has media.
C20_QuotedMediaFirst ==
    ret.fn = "SerializeMessage" =>
        /\ ret.in.quoted => ret.out.IsMedia = ret.in.quotedMedia
        /\ ~ret.in.quoted => ret.out.IsMedia = ret.in.media
        /\ (ret.in.media = "" /\ ret.in.quotedMedia = "") => ret.out.IsMedia = ""

\* A message with an image quoting a video is classified as video.
C20_Witness ==
    /\ ret.fn = "SerializeMessage"
    /\ ret.in.quoted /\ ret.in.media = "image" /\ ret.in.quotedMedia = "video"
    /\ ret.out.IsMedia = "video"


----------------------------------------------------------------------------
(* Fault model: one inbound event, transport calls that fail, absent events *)

\* Specs offered to NewCommands in the fault model: three names that overlap
\* on the tokens "ping" and "p", with and without user-visible preconditions.
FaultCmds ==
    {Cmd(S_ping, f, "hA") : f \in {{"prefix"}, {"prefix", "query"}, {"prefix", "group"},
                                   {"prefix", "media", "wait"}}}
    \cup {Cmd(S_ping_p, f, "hB") : f \in {{"prefix"}, {"prefix", "wait"}, {"prefix", "private"}}}
    \cup {Cmd(S_p, {"prefix", "query"}, "hC")}

FaultEvents ==
    {Event(b, s, g, md) :
        b \in {<<".", "p", "i", "n", "g">>, <<".", "p", "i", "n", "g", " ", "q">>, <<"!", "P">>},
        s \in {SenderOwner, SenderOther}, g \in BOOLEAN, md \in {"", "image"}}

\* The transport starts or stops failing for the calls made on behalf of
\* some specs.
NetChange(d) ==
    /\ ~crashed
    /\ d # netDown
    /\ netDown' = d
    /\ UNCHANGED <<processed, commandCache, cleanups, envPublic, envFile, calls, ret, lists,
                   publicMode, msgs, queue, pc, runner, scanPos, handler, doneCh, log, crashed,
                   cacheLock, lookers, compiles,
                   pluginManager, pmCalls,
                   ds, dsCalls,
                   users, now, econRet>>

\* The event callback for a nil *events.Message: SerializeMessage returns nil
\* (libs/message.go:22-24) and the callback then reads m.Message of that nil
\* result (handlers/message.go:115): a nil pointer dereference.  Whether the
\* panic ends the process is up to the caller of the callback.
ArriveNil ==
    /\ ~crashed
    /\ ret.fn = "none"
    /\ LET m == SerializeMessage(NilEvent)
       IN ret' = [fn |-> "RegisterHandler", in |-> NilEvent,
                  out |-> IF IsNil(m) THEN "panic" ELSE "return"]
    /\ crashed' \in BOOLEAN
    /\ UNCHANGED <<processed, commandCache, cleanups, netDown, envPublic, envFile, calls, lists,
                   publicMode, msgs, queue, pc, runner, scanPos, handler, doneCh, log,
                   cacheLock, lookers, compiles,
                   pluginManager, pmCalls,
                   ds, dsCalls,
                   users, now, econRet>>

InitFaults ==
    /\ \E cmds \in [1..MaxSpecs -> FaultCmds] : lists = RegisterAll(<<>>, cmds)
    /\ publicMode \in BOOLEAN
    /\ InitDispatcher
    /\ InitEnv

NextFaults ==
    \/ \E ev \in FaultEvents : msgs = <<>> /\ Arrive(ev)
    \/ ArriveNil
    \/ \E d \in SUBSET (1..MaxSpecs) : NetChange(d)
    \/ Steps

SpecFaults == InitFaults /\ [][NextFaults]_vars

\* The scan of ExecuteCommand has finished for the message.
Scanned(i) == Entered(i) /\ pc[i] # "exec"

\* The specs whose handler the message may run.
Passing(i) ==
    {k \in 1..Len(lists) :
        Candidate(lists[k], msgs[i].Command) /\ PreconditionsHold(lists[k], msgs[i])}

ModeAllows(i) ==
    publicMode \/ msgs[i].IsOwner \/ \A k \in 1..Len(lists) : ~Candidate(lists[k], msgs[i].Command)

\* C21: failing transport calls neither alter the dispatch nor are retried:
\* whatever calls fail, the handler invoked is that of the first spec the
\* message passes (none in private mode for a non-owner), and no side effect
\* is attempted twice for a message.
C21_TransportFailuresIgnored ==
    \A i \in Ids :
        /\ \A a, b \in 1..Len(log[i]) : log[i][a] = log[i][b] => a = b
        /\ Scanned(i) =>
              Invokes(i) = IF ModeAllows(i) /\ Passing(i) # {}
                           THEN <<Ev("invoke", CHOOSE k \in Passing(i) :
                                                   \A h \in Passing(i) : k <= h, "")>>
                           ELSE <<>>

\* A rejection notice could not be sent and the handler of a later spec was
\* invoked all the same.
C21_Witness ==
    \E i \in Ids :
        /\ \E w \in {"query", "group", "private", "media"} : Logged(i, Ev("printerr", 1, w))
        /\ Logged(i, Ev("invoke", 2, ""))

\* C22: a nil raw event is a no-op: the event callback returns without an
\* error, nothing is queued and no handler runs.
C22_NilEventNoOp ==
    (ret.fn = "RegisterHandler" /\ IsNil(ret.in)) =>
        /\ ret.out = "return"
        /\ ~crashed


----------------------------------------------------------------------------
(* Mode model: the two implementations of the owner command "mode" *)

MaxModeMsgs == 2

S_mode == <<"m", "o", "d", "e">>

ModeCmds ==
    {Cmd(S_mode, {"prefix", "owner"}, "modeConfig"), Cmd(S_mode, {"prefix", "owner"}, "modeEnv"),
     Cmd(S_ping, {"prefix"}, "hA")}

ModeEvents ==
    {Event(b, s, FALSE, "") : b \in {<<".", "m", "o", "d", "e">>, <<".", "p", "i", "n", "g">>},
                              s \in {SenderOwner, SenderOther}}

\* The handler that toggles config.Config.PublicMode (unnamed/part_007:14-29).
ExecuteModeConfig(i) ==
    /\ ~crashed
    /\ handler[i] = "running"
    /\ lists[scanPos[i]].Execute = "modeConfig"
    /\ publicMode' = ~publicMode
    /\ log' = [log EXCEPT ![i] = @ \o Reply(scanPos[i], IF publicMode THEN "now private"
                                                       ELSE "now public")]
    /\ handler' = [handler EXCEPT ![i] = "returned"]
    /\ doneCh' = [doneCh EXCEPT ![i] = "true"]
    /\ UNCHANGED <<processed, commandCache, cleanups, netDown, envPublic, envFile, calls, ret,
                   lists, msgs, queue, pc, runner, scanPos, crashed,
                   cacheLock, lookers, compiles,
                   pluginManager, pmCalls,
                   ds, dsCalls,
                   users, now, econRet>>

\* The new value of PUBLIC (unnamed/part_007:49-62).
NewMode(currentMode) == IF currentMode = "false" THEN "true" ELSE "false"

\* The handler that rewrites PUBLIC in .env and then in the environment
\* (unnamed/part_007:48-76).  helpers.UpdateEnvFile succeeds, or fails leaving
\* the file as it was or truncated.
ExecuteModeEnv(i, written) ==
    /\ ~crashed
    /\ handler[i] = "running"
    /\ lists[scanPos[i]].Execute = "modeEnv"
    /\ LET newMode == NewMode(envPublic)
       IN IF written
          THEN /\ envFile' = newMode
               /\ envPublic' = newMode
               /\ log' = [log EXCEPT ![i] = @ \o Reply(scanPos[i], IF newMode = "true"
                                                                  THEN "now public"
                                                                  ELSE "now private")]
               /\ doneCh' = [doneCh EXCEPT ![i] = "true"]
          ELSE /\ envFile' \in {envFile, "lost"}
               /\ envPublic' = envPublic
               /\ log' = [log EXCEPT ![i] = @ \o Reply(scanPos[i], "update failed")]
               /\ doneCh' = [doneCh EXCEPT ![i] = "false"]
    /\ handler' = [handler EXCEPT ![i] = "returned"]
    /\ UNCHANGED <<processed, commandCache, cleanups, netDown, calls, ret, lists, publicMode,
                   msgs, queue, pc, runner, scanPos, crashed,
                   cacheLock, lookers, compiles,
                   pluginManager, pmCalls,
                   ds, dsCalls,
                   users, now, econRet>>

InitMode ==
    /\ \E cmds \in [1..MaxSpecs -> ModeCmds] : lists = RegisterAll(<<>>, cmds)
    /\ publicMode \in BOOLEAN
    /\ envPublic \in {"true", "false", ""}
    /\ envFile = envPublic
    /\ InitDispatcher

NextMode ==
    \/ \E ev \in ModeEvents : Len(msgs) < MaxModeMsgs /\ Arrive(ev)
    \/ \E i \in Ids : ExecuteModeConfig(i)
    \/ \E i \in Ids, written \in BOOLEAN : ExecuteModeEnv(i, written)
    \/ Steps

SpecMode == InitMode /\ [][NextMode]_vars

\* The handler of a mode command ran for message i in this step.
ModeHandlerRan(i) ==
    /\ i \in Ids /\ handler[i] = "running" /\ handler'[i] = "returned"
    /\ lists[scanPos[i]].Execute \in ModeHandlers

\* C23: the mode command changes the in-memory public-mode flag only together
\* with a successful write of its persisted copy; when the copy is not
\* written the flag keeps its value, a failure reply is sent and the handler
\* returns false.
C23_ModePersistedFirst ==
    [][\A i \in Ids : ModeHandlerRan(i) =>
          LET memory == IF envPublic' # envPublic THEN envPublic'
                        ELSE IF publicMode' THEN "true" ELSE "false"
              changed == envPublic' # envPublic \/ publicMode' # publicMode
              persisted == envFile' # envFile /\ envFile' = memory
          IN /\ changed => persisted
             /\ ~persisted =>
                   /\ ~changed
                   /\ log'[i] = log[i] \o Reply(scanPos[i], "update failed")
                   /\ doneCh'[i] = "false"]_vars

----------------------------------------------------------------------------
(* Hooks, wait indicator and counters *)

Befores(i) == SelectSeq(log[i], LAMBDA e : e.ev = "before")

\* C24: for every dispatched command-shaped message the Before hook of every
\* registered spec that has one is invoked, in registration order and before
\* anything else is done for that spec, whichever spec matches and executes.
C24_EveryHookFires ==
    \A i \in Ids :
        (Scanned(i) /\ msgs[i].Command # Empty /\ ExtractPrefix(msgs[i].Body).ok) =>
            /\ \A k \in 1..Len(lists) : lists[k].Before => Logged(i, Ev("before", k, ""))
            /\ \A a, b \in 1..Len(Befores(i)) :
                  a < b => Befores(i)[a].spec < Befores(i)[b].spec
            /\ \A a, b \in 1..Len(log[i]) :
                  (log[i][a].ev = "before" /\ log[i][b].ev # "before"
                       /\ log[i][a].spec = log[i][b].spec) => a < b

\* What the dispatch of message i appends to its log in this step.
Appended(i) == SubSeq(log'[i], Len(log[i]) + 1, Len(log'[i]))

Range(s) == {s[n] : n \in 1..Len(s)}

\* C25: for a spec with IsWait the processing reaction is sent after the gate
\* passed and immediately before the handler starts; when the handler's result
\* is received, true gives the success reaction and a mark-read, false gives
\* the failure reaction and no mark-read; for a spec without IsWait no
\* processing reaction is sent and a received result gives no reaction and no
\* mark-read.
C25_WaitIndicator ==
    /\ [](\A i \in Ids : \A n \in 1..Len(log[i]) :
             LET k == log[i][n].spec
             IN /\ log[i][n].ev = "invoke" =>
                      /\ PreconditionsHold(lists[k], msgs[i])
                      /\ IF lists[k].IsWait
                         THEN n > 1 /\ log[i][n - 1] = Ev("react", k, "wait")
                         ELSE ~Logged(i, Ev("react", k, "wait"))
                /\ log[i][n] = Ev("react", k, "wait") =>
                      n < Len(log[i]) /\ log[i][n + 1] = Ev("invoke", k, ""))
    /\ [][\A i \in Ids :
            (pc[i] = "wait" /\ doneCh[i] # "empty" /\ doneCh'[i] = "empty") =>
                LET k == scanPos[i]
                IN /\ SubSeq(log'[i], 1, Len(log[i])) = log[i]
                   /\ Range(Appended(i)) =
                         IF ~lists[k].IsWait THEN {}
                         ELSE IF doneCh[i] = "true"
                         THEN {Ev("react", k, "clear"), Ev("markread", k, "")}
                         ELSE {Ev("react", k, "fail")}]_vars

C25_Witness ==
    \E i \in Ids :
        /\ pc[i] = "done" /\ handler[i] = "returned"
        /\ lists[scanPos[i]].IsWait
        /\ Logged(i, Ev("react", scanPos[i], "wait"))
        /\ Logged(i, Ev("react", scanPos[i], "clear"))
        /\ Logged(i, Ev("markread", scanPos[i], ""))

\* C26: the processed counter is incremented exactly once for every
\* dispatched command message, run by a worker or inline: it never exceeds
\* the number of dispatches entered, and once all dispatches have finished it
\* equals that number.
C26_ProcessedCountsDispatches ==
    ~crashed =>
        /\ processed <= Cardinality({i \in Ids : Entered(i)})
        /\ (\A i \in Ids : pc[i] \in {"done", "ignored"}) =>
              processed = Cardinality({i \in Ids : Entered(i)})

----------------------------------------------------------------------------
(* Rejection notices *)

NoticeKinds == {"query", "group", "private", "media"}

\* The rejection notices sent on behalf of the spec at registry index k.
Notices(i, k) ==
    SelectSeq(log[i], LAMBDA e : e.ev = "reply" /\ e.spec = k /\ e.what \in NoticeKinds)

\* The first user-visible check the message fails for the spec, in the order
\* query, group, private, media.
FirstFailing(cmd, m) ==
    IF cmd.IsQuery /\ m.Text = Empty THEN "query"
    ELSE IF cmd.IsGroup /\ ~m.IsGroup THEN "group"
    ELSE IF cmd.IsPrivate /\ m.IsGroup THEN "private"
    ELSE IF cmd.IsMedia /\ m.IsMedia = "" THEN "media"
    ELSE "none"

SilentlyRejected(cmd, m) ==
    \/ cmd.IsPrefix /\ ExtractPrefix(m.Body).prefix = Empty
    \/ cmd.IsOwner /\ ~m.IsOwner

\* The scan reached the spec at index k and tested its preconditions.
Tested(i, k) ==
    /\ Scanned(i) /\ msgs[i].Command # Empty /\ ExtractPrefix(msgs[i].Body).ok
    /\ ModeAllows(i)
    /\ Candidate(lists[k], msgs[i].Command)
    /\ \A e \in Range(Invokes(i)) : e.spec >= k

\* C27: for one matched spec the checks run in the order query, group,
\* private, media after the silent prefix and owner checks and stop at the
\* first failure: at most one notice per spec, it is the notice of the first
\* failing check, and no notice for a spec rejected by prefix or owner check.
C27_FirstFailingNotice ==
    \A i \in Ids : \A k \in 1..Len(lists) :
        LET cmd == lists[k]
            m == msgs[i]
            expected == IF Tested(i, k) /\ ~SilentlyRejected(cmd, m)
                           /\ FirstFailing(cmd, m) # "none"
                        THEN <<Ev("reply", k, FirstFailing(cmd, m))>>
                        ELSE <<>>
        IN Scanned(i) => Notices(i, k) = expected

C27_Witness ==
    \E i \in Ids : \E k \in 1..Len(lists) :
        /\ Scanned(i)
        /\ lists[k].IsQuery /\ lists[k].IsMedia
        /\ msgs[i].Text = Empty /\ msgs[i].IsMedia = ""
        /\ Notices(i, k) = <<Ev("reply", k, "query")>>

\* The spec is a candidate for the message and every check of the gate holds.
PassesGate(cmd, m) ==
    /\ Candidate(cmd, m.Command)
    /\ cmd.IsPrefix => ExtractPrefix(m.Body).prefix # Empty
    /\ PreconditionsHold(cmd, m)

LogIndex(i, e) == CHOOSE n \in 1..Len(log[i]) : log[i][n] = e

\* C28: a rejection notice for one spec does not end the dispatch: when a
\* later-registered spec also matches and passes the gate, its handler is
\* invoked for the same message, after the notice.
C28_RejectionContinues ==
    \A i \in Ids : \A k \in 1..Len(lists) :
        (/\ Scanned(i)
         /\ Notices(i, k) # <<>>
         /\ \E h \in (k + 1)..Len(lists) : PassesGate(lists[h], msgs[i])) =>
            LET h == CHOOSE h \in (k + 1)..Len(lists) :
                        /\ PassesGate(lists[h], msgs[i])
                        /\ \A g \in (k + 1)..(h - 1) : ~PassesGate(lists[g], msgs[i])
            IN /\ Invokes(i) = <<Ev("invoke", h, "")>>
               /\ LogIndex(i, Notices(i, k)[1]) < LogIndex(i, Ev("invoke", h, ""))

C28_Witness ==
    \E i \in Ids : \E k, h \in 1..Len(lists) :
        /\ k < h
        /\ Notices(i, k) # <<>>
        /\ Invokes(i) = <<Ev("invoke", h, "")>>
        /\ pc[i] = "done" /\ handler[i] = "returned"

----------------------------------------------------------------------------
(* Abandoned handlers *)

TimedOut(i) == Logged(i, Ev("react", scanPos[i], "timeout"))

\* C29: after a timeout the abandoned handler is not cancelled and can still
\* return, its send on `done` is always possible, and once the timeout
\* reaction was sent nothing more is emitted for the message: the timeout
\* reaction stays the last entry of its log.
C29_AbandonedHandlerSilent ==
    /\ [](\A i \in Ids : TimedOut(i) =>
             /\ pc[i] \in {"done", "killed"}
             /\ log[i][Len(log[i])] = Ev("react", scanPos[i], "timeout")
             /\ (handler[i] = "running" /\ ~crashed) =>
                   ENABLED HandlerReturn(i, TRUE) /\ ENABLED HandlerReturn(i, FALSE))
    /\ [][\A i \in Ids : TimedOut(i) => log'[i] = log[i]]_vars

C29_Witness ==
    \E i \in Ids :
        /\ TimedOut(i) /\ pc[i] = "done"
        /\ handler[i] = "returned" /\ doneCh[i] = "true"
        /\ lists[scanPos[i]].IsWait

----------------------------------------------------------------------------
(* Cache model: lookups of registered patterns against the pattern cache,
   with a registry one larger than the size that triggers a cleanup *)

NumCachePatterns == CacheTrigger + 1

\* Distinct command names: "(ping|p)", "a.", then "aaa", "aaaa", ...
CacheName(n) ==
    IF n = 1 THEN S_ping_p ELSE IF n = 2 THEN <<"a", ".">> ELSE [j \in 1..n |-> "a"]

CacheCmds == [n \in 1..NumCachePatterns |-> Cmd(CacheName(n), {"prefix"}, "hA")]

\* One call getCachedRegex(cmd.Name) of the registry loop (line 243), for the
\* spec at registry index k.
LookupPattern(k) ==
    /\ LET c == CacheLookup([cache |-> commandCache, spawned |-> 0], lists[k].Name)
       IN /\ commandCache' = c.cache
          /\ cleanups' = cleanups + c.spawned
          /\ ret' = [fn |-> "getCachedRegex", in |-> lists[k].Name,
                     out |-> [hit |-> lists[k].Name \in CacheKeys(commandCache),
                              size |-> Cardinality(c.cache)]]
    /\ UNCHANGED <<processed, netDown, envPublic, envFile, calls, lists, publicMode, msgs,
                   queue, pc, runner, scanPos, handler, doneCh, log, crashed,
                   cacheLock, lookers, compiles,
                   pluginManager, pmCalls,
                   ds, dsCalls,
                   users, now, econRet>>

\* The periodic cleanup at the end of ExecuteCommand (lines 338-341).
Tick ==
    /\ cleanups < MaxCleanups
    /\ cleanups' = cleanups + 1
    /\ UNCHANGED <<commandCache, ret, processed, netDown, envPublic, envFile, calls, lists,
                   publicMode, msgs, queue, pc, runner, scanPos, handler, doneCh, log, crashed,
                   cacheLock, lookers, compiles,
                   pluginManager, pmCalls,
                   ds, dsCalls,
                   users, now, econRet>>

InitCache ==
    /\ lists = RegisterAll(<<>>, CacheCmds)
    /\ publicMode = TRUE
    /\ InitDispatcher
    /\ InitEnv

NextCache ==
    \/ \E k \in 1..Len(lists) : LookupPattern(k)
    \/ Tick
    \/ CleanupCommandCache

SpecCache == InitCache /\ [][NextCache]_vars

\* A goroutine started with `go cleanupCommandCache()` is eventually scheduled
\* and eventually acquires the cache's write lock.
SpecCacheLive == SpecCache /\ WF_vars(CleanupCommandCache)

----------------------------------------------------------------------------
(* Cache model at the level of commandCacheMutex: goroutines inside
   getCachedRegex and cleanupCommandCache, one step per lock operation *)

\* Mutant: the map read returns the value of some entry.
CacheGet_anyEntry(cache, pattern) == (CHOOSE e \in cache : TRUE).re

\* commandCache[pattern] for a key that exists (lines 159, 173).
CacheGet(cache, pattern) == (CHOOSE e \in cache : e.key = pattern).re

\* Mutant: no second check under the write lock.
DoubleCheckHit_never(cache, pattern) == FALSE

\* The check repeated after acquiring the write lock (lines 173-175).
DoubleCheckHit(cache, pattern) == pattern \in CacheKeys(cache)

LockFree == cacheLock.writer = 0 /\ cacheLock.readers = {}

Compiled(p) == IF \E e \in compiles : e[1] = p
               THEN {IF e[1] = p THEN <<p, e[2] + 1>> ELSE e : e \in compiles}
               ELSE compiles \cup {<<p, 1>>}

CacheSyncFrame ==
    UNCHANGED <<lists, publicMode, msgs, queue, pc, runner, scanPos, handler, doneCh, log,
                crashed, calls, processed, netDown, envPublic, envFile,
                   pluginManager, pmCalls,
                   ds, dsCalls,
                   users, now, econRet>>

\* getCachedRegex(lists[k].Name) is entered: commandCacheMutex.RLock() (line 158).
RLockCache(g, k) ==
    /\ lookers[g].pc = "idle"
    /\ cacheLock.writer = 0
    /\ cacheLock' = [cacheLock EXCEPT !.readers = @ \cup {g}]
    /\ lookers' = [lookers EXCEPT ![g] = [pc |-> "rlocked", pattern |-> lists[k].Name]]
    /\ UNCHANGED <<commandCache, cleanups, compiles, ret,
                   pluginManager, pmCalls,
                   ds, dsCalls,
                   users, now, econRet>>
    /\ CacheSyncFrame

\* The first check and RUnlock (lines 159-166): a hit returns the cached regex.
ReadCache(g) ==
    /\ lookers[g].pc = "rlocked"
    /\ cacheLock' = [cacheLock EXCEPT !.readers = @ \ {g}]
    /\ LET p == lookers[g].pattern
       IN IF p \in CacheKeys(commandCache)
          THEN /\ lookers' = [lookers EXCEPT ![g].pc = "idle"]
               /\ ret' = [fn |-> "getCachedRegex", in |-> p,
                          out |-> [how |-> "hit", re |-> CacheGet(commandCache, p)]]
          ELSE /\ lookers' = [lookers EXCEPT ![g].pc = "unlocked"]
               /\ UNCHANGED ret
    /\ UNCHANGED <<commandCache, cleanups, compiles,
                   pluginManager, pmCalls,
                   ds, dsCalls,
                   users, now, econRet>>
    /\ CacheSyncFrame

\* commandCacheMutex.Lock() (line 169).
LockCache(g) ==
    /\ lookers[g].pc = "unlocked"
    /\ LockFree
    /\ cacheLock' = [cacheLock EXCEPT !.writer = g]
    /\ lookers' = [lookers EXCEPT ![g].pc = "locked"]
    /\ UNCHANGED <<commandCache, cleanups, compiles, ret,
                   pluginManager, pmCalls,
                   ds, dsCalls,
                   users, now, econRet>>
    /\ CacheSyncFrame

\* Under the write lock (lines 172-193): the second check, else compile,
\* insert and the size check that starts a cleanup; the deferred Unlock.
InsertCache(g) ==
    /\ lookers[g].pc = "locked"
    /\ LET p == lookers[g].pattern
       IN IF DoubleCheckHit(commandCache, p)
          THEN /\ ret' = [fn |-> "getCachedRegex", in |-> p,
                          out |-> [how |-> "recheck", re |-> CacheGet(commandCache, p)]]
               /\ UNCHANGED <<commandCache, cleanups, compiles,
                   pluginManager, pmCalls,
                   ds, dsCalls,
                   users, now, econRet>>
          ELSE /\ commandCache' = CachePut(commandCache, p, Compile(p))
               /\ compiles' = Compiled(p)
               /\ cleanups' = cleanups + (IF Cardinality(commandCache') > CacheTrigger
                                          THEN 1 ELSE 0)
               /\ ret' = [fn |-> "getCachedRegex", in |-> p,
                          out |-> [how |-> "compiled", re |-> Compile(p)]]
    /\ cacheLock' = [cacheLock EXCEPT !.writer = 0]
    /\ lookers' = [lookers EXCEPT ![g].pc = "idle"]
    /\ CacheSyncFrame

\* A cleanupCommandCache goroutine acquires the write lock (line 198).
StartCleanup ==
    /\ cleanups > 0
    /\ LockFree
    /\ cleanups' = cleanups - 1
    /\ cacheLock' = [cacheLock EXCEPT !.writer = -1]
    /\ UNCHANGED <<commandCache, lookers, compiles, ret,
                   pluginManager, pmCalls,
                   ds, dsCalls,
                   users, now, econRet>>
    /\ CacheSyncFrame

\* The body of cleanupCommandCache and its deferred Unlock (lines 199-208).
RunCleanup ==
    /\ cacheLock.writer = -1
    /\ commandCache' = CleanupResult(commandCache)
    /\ compiles' = IF commandCache' = {} THEN {} ELSE compiles
    /\ cacheLock' = [cacheLock EXCEPT !.writer = 0]
    /\ UNCHANGED <<cleanups, lookers, ret,
                   pluginManager, pmCalls,
                   ds, dsCalls,
                   users, now, econRet>>
    /\ CacheSyncFrame

NextCacheSync ==
    \/ \E g \in Lookers, k \in 1..Len(lists) : RLockCache(g, k)
    \/ \E g \in Lookers : ReadCache(g)
    \/ \E g \in Lookers : LockCache(g)
    \/ \E g \in Lookers : InsertCache(g)
    \/ StartCleanup
    \/ RunCleanup
    \/ Tick

SpecCacheSync == InitCache /\ [][NextCacheSync]_vars

\* C31: the cache is coherent under every interleaving of lookups and
\* cleanups: every key is stored once and maps to the regex compiled from that
\* key, and getCachedRegex returns the regex compiled from its pattern whether
\* it comes from a hit, from the second check or from a compilation.
C31_CacheCoherent ==
    /\ \A e \in commandCache : e.re = Compile(e.key)
    /\ \A e, f \in commandCache : e.key = f.key => e = f
    /\ ret.fn = "getCachedRegex" => ret.out.re = Compile(ret.in)

\* A hit on a pattern that is compiled quoted, while the cache also holds a
\* pattern compiled as a regular expression.
C31_Witness ==
    /\ ret.fn = "getCachedRegex" /\ ret.out.how = "hit"
    /\ ret.in = <<"a", ".">> /\ ret.out.re = <<"^", "a", "\\", ".", "$">>
    /\ [key |-> S_ping_p, re |-> <<"^">> \o S_ping_p \o <<"$">>] \in commandCache

\* C32: the cache map is written (insert or clear) only by a step of the
\* holder of the exclusive lock, a goroutine between RLock and RUnlock holds
\* the shared lock with no writer, the exclusive lock excludes readers, and a
\* pattern is compiled and inserted at most once between two clears.
C32_CacheLocking ==
    /\ [](/\ cacheLock.writer # 0 => cacheLock.readers = {}
          /\ \A g \in Lookers :
                /\ lookers[g].pc = "rlocked" <=> g \in cacheLock.readers
                /\ lookers[g].pc = "locked" <=> cacheLock.writer = g
          /\ \A e \in compiles : e[2] = 1)
    /\ [][commandCache' # commandCache =>
             /\ cacheLock.writer # 0 /\ cacheLock.readers = {}
             /\ cacheLock'.writer = 0]_vars

\* Two goroutines missed on the same pattern; the second found it at the
\* second check, after the first had compiled it.
C32_Witness ==
    /\ ret.fn = "getCachedRegex" /\ ret.out.how = "recheck"
    /\ <<ret.in, 1>> \in compiles

\* C33: every key of the cache is the Name of a registered spec, so the cache
\* never holds more entries than the registry.
C33_KeysAreRegistered ==
    /\ \A e \in commandCache : \E k \in 1..Len(lists) : lists[k].Name = e.key
    /\ Cardinality(commandCache) <= Len(lists)

\* A dispatch has looked up every registered pattern for a command token
\* that is none of them.
C33_Witness ==
    /\ Len(lists) >= 2
    /\ Cardinality(commandCache) = Len(lists)
    /\ \E i \in Ids : pc[i] = "done" /\ \A k \in 1..Len(lists) : lists[k].Name # msgs[i].Command

----------------------------------------------------------------------------
(* Dispatcher bounds *)

PoolMessages == {SerializeMessage(ev) : ev \in PoolEvents}

\* Queue model: the worker pool with a registry of one owner-only spec, in
\* public mode.
InitQueue ==
    /\ lists = RegisterAll(<<>>, <<Cmd(S_ping_p, {"prefix", "owner"}, "hB")>>)
    /\ publicMode = TRUE
    /\ InitDispatcher
    /\ InitEnv

SpecQueue == InitQueue /\ [][Next]_vars

Executing(w) == {i \in Ids : runner[i] = w /\ pc[i] \in {"exec", "wait"}}

\* C34: the queue never holds more than QueueCap messages, every pool worker
\* executes at most one message at a time (at most NumWorkers in all), a
\* message is run inline exactly if it is a command and the queue was full
\* when the callback tried to enqueue it, and the callback can always take
\* its enqueue-or-spawn step, whatever the message.
C34_DispatcherBounds ==
    /\ [](/\ Len(queue) <= QueueCap
          /\ \A w \in Workers : Cardinality(Executing(w)) <= 1
          /\ Cardinality(UNION {Executing(w) : w \in Workers}) <= NumWorkers
          /\ ~crashed => \A m \in PoolMessages : ENABLED EnqueueOrSpawn(m))
    /\ [][Len(msgs') = Len(msgs) + 1 =>
             LET n == Len(msgs')
             IN /\ runner'[n] = Inline <=>
                      (pc'[n] # "ignored" /\ Len(queue) = QueueCap)
                /\ runner'[n] = Inline => (pc'[n] = "exec" /\ queue' = queue)
                /\ (pc'[n] # "ignored" /\ Len(queue) < QueueCap) =>
                      queue' = Append(queue, n)]_vars

C34_Witness ==
    /\ Len(queue) = QueueCap
    /\ \A w \in Workers : Executing(w) # {}
    /\ \E i \in Ids : runner[i] = Inline /\ pc[i] = "exec"

----------------------------------------------------------------------------
(* Enqueue filter and scan *)

\* C35: the enqueue filter and the scan agree: for every message the
\* callback accepts as a command (Command not empty and HasCommand(Command)),
\* ExecuteCommand reaches its registry loop and the regex of some registered
\* spec matches the message's Command.
C35_FilterAgreesWithScan ==
    (/\ ret.fn = "SerializeMessage" /\ "Command" \in DOMAIN ret.out
     /\ ret.out.Command # Empty /\ HasCommand(ret.out.Command)) =>
        /\ ExtractPrefix(ret.out.Body).ok
        /\ \E k \in 1..Len(lists) : Matches(lists[k].Name, ret.out.Command)

----------------------------------------------------------------------------
(* Public-mode flag *)

----------------------------------------------------------------------------
(* Hook-only specs *)

\* The registration of commands/Auto/readsw.go and commands/Auto/bio.go: a
\* Before hook and nothing else.
HookOnly == Cmd(Empty, {"before"}, "nil")

\* Specs the init functions offer in the hook model: the two hook-only specs
\* (equal as values), a named spec with a hook, and the two commands of the worker-pool model.
HookCmds ==
    {HookOnly, Cmd(S_p, {"prefix", "before"}, "hC"),
     Cmd(S_ping, {"prefix", "wait"}, "hA"), Cmd(S_ping_p, {"prefix", "owner"}, "hB")}

InitHooks ==
    /\ lists = <<>>
    /\ publicMode = TRUE
    /\ InitDispatcher
    /\ InitEnv

\* Package init functions register before the first event is delivered.
NextHooks ==
    \/ \E cmd \in HookCmds : msgs = <<>> /\ Register(cmd)
    \/ \E ev \in PoolEvents : msgs = <<>> /\ Arrive(ev)
    \/ Steps

SpecHooks == InitHooks /\ [][NextHooks]_vars

----------------------------------------------------------------------------
(* Plugin manager (plugins/plugin_manager.go) *)

PluginNames == {"echo", "dice"}

\* Operations that take pm.mutex exclusively; the others take it shared.
PmWriters == {"LoadPlugin", "ReloadPlugin", "UnloadPlugin"}

PmFrame ==
    UNCHANGED <<lists, publicMode, msgs, queue, pc, runner, scanPos, handler, doneCh, log,
                crashed, calls, ret, processed, commandCache, cleanups, netDown, envPublic,
                envFile, cacheLock, lookers, compiles, ds, dsCalls, users, now, econRet>>

\* Mutant: a goroutine may lock the mutex it already holds.
PmLockEnabled_reentrant(g) ==
    pluginManager.mutex.readers = {} /\ pluginManager.mutex.writer \in {0, g}

\* sync.RWMutex: Lock needs the mutex free, and is not re-entrant.
PmLockEnabled(g) ==
    pluginManager.mutex.readers = {} /\ pluginManager.mutex.writer = 0

\* The mutex after the deferred Unlock or RUnlock of goroutine g.
PmUnlocked(g) ==
    [readers |-> pluginManager.mutex.readers \ {g},
     writer |-> IF pluginManager.mutex.writer = g THEN 0 ELSE pluginManager.mutex.writer]

PmReturn(g, err) == [pmCalls EXCEPT ![g].pc = "returned", ![g].err = err]

\* A goroutine calls an operation of the manager.
PmCall(g, op, name) ==
    /\ pmCalls[g].pc \in {"idle", "returned"}
    /\ pmCalls[g].n < MaxPmCalls
    /\ pmCalls' = [pmCalls EXCEPT ![g] = [op |-> op, name |-> name, pc |-> "lock",
                                          outer |-> FALSE, err |-> FALSE,
                                          n |-> pmCalls[g].n + 1]]
    /\ UNCHANGED pluginManager
    /\ PmFrame

\* pm.mutex.Lock() or pm.mutex.RLock(), the first statement of every operation.
PmAcquire(g) ==
    /\ pmCalls[g].pc = "lock"
    /\ IF pmCalls[g].op \in PmWriters
       THEN /\ PmLockEnabled(g)
            /\ pluginManager' = [pluginManager EXCEPT !.mutex.writer = g]
       ELSE /\ pluginManager.mutex.writer = 0
            /\ pluginManager' = [pluginManager EXCEPT !.mutex.readers = @ \cup {g}]
    /\ pmCalls' = [pmCalls EXCEPT ![g].pc = "body"]
    /\ PmFrame

\* LoadPlugin after its Lock: plugin.Open, Lookup and Initialize succeed or
\* not; on success the plugin and its commands are registered.  The deferred
\* Unlock runs on return.
LoadPlugin(g) ==
    /\ pmCalls[g].pc = "body" /\ pmCalls[g].op = "LoadPlugin"
    /\ \E ok \in BOOLEAN :
          /\ pluginManager' = [plugins |-> IF ok THEN pluginManager.plugins \cup {pmCalls[g].name} ELSE pluginManager.plugins,
                    commands |-> IF ok THEN pluginManager.commands \cup {pmCalls[g].name}
                                 ELSE pluginManager.commands,
                    mutex |-> PmUnlocked(g)]
          /\ pmCalls' = PmReturn(g, ~ok)
    /\ PmFrame

\* ReloadPlugin after its Lock: an unknown plugin or a missing file returns an
\* error; otherwise the plugin is removed and LoadPlugin is called with the
\* mutex still held.
ReloadPlugin(g) ==
    /\ pmCalls[g].pc = "body" /\ pmCalls[g].op = "ReloadPlugin"
    /\ LET name == pmCalls[g].name
       IN IF name \notin pluginManager.plugins
          THEN /\ pluginManager' = [pluginManager EXCEPT !.mutex = PmUnlocked(g)]
               /\ pmCalls' = PmReturn(g, TRUE)
          ELSE \E found \in BOOLEAN :
                  IF ~found
                  THEN /\ pluginManager' = [pluginManager EXCEPT !.mutex = PmUnlocked(g)]
                       /\ pmCalls' = PmReturn(g, TRUE)
                  ELSE /\ pluginManager' = [pluginManager EXCEPT !.plugins = @ \ {name},
                                           !.commands = @ \ {name}]
                       /\ pmCalls' = [pmCalls EXCEPT ![g].op = "LoadPlugin",
                                                     ![g].outer = TRUE,
                                                     ![g].pc = "lock"]
    /\ PmFrame

UnloadPlugin(g) ==
    /\ pmCalls[g].pc = "body" /\ pmCalls[g].op = "UnloadPlugin"
    /\ LET name == pmCalls[g].name
       IN /\ pluginManager' = [plugins |-> pluginManager.plugins \ {name},
                    commands |-> IF name \in pluginManager.plugins THEN pluginManager.commands \ {name}
                                 ELSE pluginManager.commands,
                    mutex |-> PmUnlocked(g)]
          /\ pmCalls' = PmReturn(g, name \notin pluginManager.plugins)
    /\ PmFrame

\* PluginManager.ExecuteCommand under the shared lock: the command of the
\* named plugin is found or not.
PluginExecuteCommand(g) ==
    /\ pmCalls[g].pc = "body" /\ pmCalls[g].op = "ExecuteCommand"
    /\ pluginManager' = [pluginManager EXCEPT !.mutex = PmUnlocked(g)]
    /\ pmCalls' = PmReturn(g, pmCalls[g].name \notin pluginManager.commands)
    /\ PmFrame

PmStep(g) ==
    \/ PmAcquire(g)
    \/ LoadPlugin(g)
    \/ ReloadPlugin(g)
    \/ UnloadPlugin(g)
    \/ PluginExecuteCommand(g)

InitPlugins ==
    /\ lists = <<>>
    /\ publicMode = FALSE
    /\ InitDispatcher
    /\ InitEnv

NextPlugins ==
    \/ \E g \in PmCallers, op \in PmWriters \cup {"ExecuteCommand"}, name \in PluginNames :
          PmCall(g, op, name)
    \/ \E g \in PmCallers : PmStep(g)

\* Every goroutine that can take a step eventually takes one.
SpecPlugins == InitPlugins /\ [][NextPlugins]_vars /\ \A g \in PmCallers : WF_vars(PmStep(g))

\* C38: a ReloadPlugin call that found the plugin loaded and its file present
\* eventually returns without error, with the plugin and its commands
\* registered and the mutex no longer held by the caller.
C38_ReloadReturns ==
    \A g \in PmCallers :
        (pmCalls[g].outer /\ pmCalls[g].pc = "lock")
            ~> (/\ pmCalls[g].outer /\ pmCalls[g].pc = "returned"
                /\ pluginManager.mutex.writer # g)

\* The state the reload is left in: the caller waits in LoadPlugin's Lock for
\* the mutex it holds itself, and the plugin is gone from the manager.
C38_SelfDeadlock ==
    \E g \in PmCallers :
        /\ pmCalls[g].outer /\ pmCalls[g].pc = "lock"
        /\ pluginManager.mutex.writer = g
        /\ pmCalls[g].name \notin pluginManager.plugins
        /\ ~ENABLED PmStep(g)

----------------------------------------------------------------------------
(* Download result cache (systems/downloader.go) *)

DsKeys == {"yt:a", "ig:b"}

DsFrame ==
    UNCHANGED <<lists, publicMode, msgs, queue, pc, runner, scanPos, handler, doneCh, log,
                calls, ret, processed, commandCache, cleanups, netDown, envPublic,
                envFile, cacheLock, lookers, compiles, pluginManager, pmCalls,
                users, now, econRet>>

\* Mutant: getCachedResult takes the exclusive lock.
GetTakesWriteLock_always == TRUE

\* The lock getCachedResult takes: shared (RLock) in the source.
GetTakesWriteLock == FALSE

DsHas(key) == \E e \in ds.cache : e.key = key

DsFresh(key) == \E e \in ds.cache : e.key = key /\ ~e.expired

DsWithout(cache, key) == {e \in cache : e.key # key}

\* The map after the write of goroutine g has run alone: the delete of
\* getCachedResult, the insert of setCachedResult with the cleanupCache it
\* calls above DsCleanupAt entries, or the fresh map of ClearCache.
DsWritten(g) ==
    LET key == dsCalls[g].key
        put == DsWithout(ds.cache, key) \cup {[key |-> key, expired |-> FALSE]}
    IN CASE dsCalls[g].op = "getCachedResult" -> DsWithout(ds.cache, key)
         [] dsCalls[g].op = "setCachedResult" ->
                IF Cardinality(put) > DsCleanupAt THEN {e \in put : ~e.expired} ELSE put
         [] OTHER -> {}

DsUnlocked(g) ==
    [readers |-> ds.cacheMutex.readers \ {g},
     writer |-> IF ds.cacheMutex.writer = g THEN 0 ELSE ds.cacheMutex.writer]

DsCall(g, op, key) ==
    /\ ~crashed
    /\ dsCalls[g].pc \in {"idle", "returned"}
    /\ dsCalls[g].n < MaxDsCalls
    /\ dsCalls' = [dsCalls EXCEPT ![g] = [op |-> op, key |-> key, pc |-> "lock",
                                          hit |-> FALSE, n |-> dsCalls[g].n + 1]]
    /\ UNCHANGED <<ds, crashed,
                   users, now, econRet>>
    /\ DsFrame

\* ds.cacheMutex.RLock() of getCachedResult, Lock() of the other two.
DsAcquire(g) ==
    /\ ~crashed
    /\ dsCalls[g].pc = "lock"
    /\ IF dsCalls[g].op = "getCachedResult" /\ ~GetTakesWriteLock
       THEN /\ ds.cacheMutex.writer = 0
            /\ ds' = [ds EXCEPT !.cacheMutex.readers = @ \cup {g}]
       ELSE /\ ds.cacheMutex.writer = 0 /\ ds.cacheMutex.readers = {}
            /\ ds' = [ds EXCEPT !.cacheMutex.writer = g]
    /\ dsCalls' = [dsCalls EXCEPT ![g].pc = "body"]
    /\ UNCHANGED crashed
    /\ DsFrame

\* getCachedResult after its RLock: a fresh entry is returned, a missing one
\* is a miss, and for an expired one the call goes on to delete it.
GetCachedResult(g) ==
    /\ ~crashed
    /\ dsCalls[g].pc = "body" /\ dsCalls[g].op = "getCachedResult"
    /\ LET key == dsCalls[g].key
       IN IF DsHas(key) /\ ~DsFresh(key)
          THEN /\ dsCalls' = [dsCalls EXCEPT ![g].pc = "writing"]
               /\ UNCHANGED ds
          ELSE /\ dsCalls' = [dsCalls EXCEPT ![g].pc = "returned",
                                             ![g].hit = DsFresh(key)]
               /\ ds' = [ds EXCEPT !.cacheMutex = DsUnlocked(g)]
    /\ UNCHANGED crashed
    /\ DsFrame

\* setCachedResult and ClearCache after their Lock: the map write begins.
StartWrite(g) ==
    /\ ~crashed
    /\ dsCalls[g].pc = "body" /\ dsCalls[g].op \in {"setCachedResult", "ClearCache"}
    /\ dsCalls' = [dsCalls EXCEPT ![g].pc = "writing"]
    /\ UNCHANGED <<ds, crashed,
                   users, now, econRet>>
    /\ DsFrame

\* The map write ends and the call returns, releasing its lock.  A write that
\* overlaps the write of another goroutine is a data race on a Go map: the
\* runtime may stop the process ("concurrent map writes"), and otherwise the
\* map holds any part of what was there or was being written.
FinishWrite(g) ==
    /\ ~crashed
    /\ dsCalls[g].pc = "writing"
    /\ IF \E h \in DsCallers \ {g} : dsCalls[h].pc = "writing"
       THEN /\ crashed' \in BOOLEAN
            /\ \E c \in SUBSET (ds.cache \cup DsWritten(g)) :
                  ds' = [cache |-> c, cacheMutex |-> DsUnlocked(g)]
       ELSE /\ crashed' = FALSE
            /\ ds' = [cache |-> DsWritten(g), cacheMutex |-> DsUnlocked(g)]
    /\ dsCalls' = [dsCalls EXCEPT ![g].pc = "returned"]
    /\ DsFrame

\* Time passes: a cached result becomes older than cacheTTL.
Expire(key) ==
    /\ ~crashed
    /\ DsFresh(key)
    /\ ds' = [ds EXCEPT !.cache = DsWithout(@, key) \cup {[key |-> key, expired |-> TRUE]}]
    /\ UNCHANGED <<dsCalls, crashed,
                   users, now, econRet>>
    /\ DsFrame

InitDownloader ==
    /\ lists = <<>>
    /\ publicMode = FALSE
    /\ InitDispatcher
    /\ InitEnv

NextDownloader ==
    \/ \E g \in DsCallers, key \in DsKeys,
          op \in {"getCachedResult", "setCachedResult", "ClearCache"} : DsCall(g, op, key)
    \/ \E g \in DsCallers : DsAcquire(g)
    \/ \E g \in DsCallers : GetCachedResult(g)
    \/ \E g \in DsCallers : StartWrite(g)
    \/ \E g \in DsCallers : FinishWrite(g)
    \/ \E key \in DsKeys : Expire(key)

SpecDownloader == InitDownloader /\ [][NextDownloader]_vars

\* C39: a goroutine writes the cache map only while it holds cacheMutex
\* exclusively, so that no two goroutines write the map at the same time.
C39_WritesUnderWriteLock ==
    /\ \A g \in DsCallers : dsCalls[g].pc = "writing" => ds.cacheMutex.writer = g
    /\ \A g, h \in DsCallers :
          (dsCalls[g].pc = "writing" /\ dsCalls[h].pc = "writing") => g = h

\* Two getCachedResult calls for the same expired key hold the lock shared
\* and are both inside delete(ds.cache, key).
C39_ConcurrentDeletes ==
    \E g, h \in DsCallers :
        /\ g # h
        /\ dsCalls[g].op = "getCachedResult" /\ dsCalls[h].op = "getCachedResult"
        /\ dsCalls[g].key = dsCalls[h].key
        /\ dsCalls[g].pc = "writing" /\ dsCalls[h].pc = "writing"
        /\ ds.cacheMutex.readers = {g, h}

----------------------------------------------------------------------------
(* Economy operations (EconomySystem) *)

\* Prices of two of the ShopItems.
ShopItems == [phone |-> 2000, laptop |-> 15000]

ItemKeys == {"phone", "laptop", "yacht"}

\* Amounts a command passes: negative, below the minimum of 10, the minimum,
\* and larger ones.
EconAmounts == {-5, 5, 10, 50, 2000}

\* Seconds that pass before an operation is called.
EconDelays == {0, RobCooldown}

\* Balances database.Load can find in the saved file.
SavedUsers ==
    {[Money |-> m, ATM |-> a, LastRob |-> 0, Inventory |-> {}] :
        m \in {0, 60, 2500}, a \in {0, 40}}

EconFrame ==
    UNCHANGED <<lists, publicMode, msgs, queue, pc, runner, scanPos, handler, doneCh, log,
                crashed, calls, ret, processed, commandCache, cleanups, netDown, envPublic,
                envFile, cacheLock, lookers, compiles, pluginManager, pmCalls, ds, dsCalls>>

EconRet(op, rejected) ==
    [op |-> op, rejected |-> rejected, before |-> users, n |-> econRet.n + 1]

\* database.Load at start-up: the users come from the saved file.
LoadUsers(saved) ==
    /\ econRet.op = "none"
    /\ users' = saved
    /\ econRet' = [op |-> "Load", rejected |-> FALSE, before |-> users, n |-> 0]
    /\ UNCHANGED now
    /\ EconFrame

\* Mutant: the fine of a failed robbery takes no more than the robber has.
FailedRob_capped(us, robber) ==
    [us EXCEPT ![robber].Money = IF @ < 100 THEN 0 ELSE @ - 100]

\* The fine of a failed robbery: 100 coins.
FailedRob(us, robber) == [us EXCEPT ![robber].Money = @ - 100]

Transfer(from, to, amount) ==
    /\ econRet.n < MaxEconOps
    /\ IF users[from].Money < amount \/ amount < 10
       THEN /\ users' = users
            /\ econRet' = EconRet("Transfer", TRUE)
       ELSE LET fee == amount \div 20
                paid == [users EXCEPT ![from].Money = @ - amount]
            IN /\ users' = [paid EXCEPT ![to].Money = @ + (amount - fee)]
               /\ econRet' = EconRet("Transfer", FALSE)
    /\ UNCHANGED now
    /\ EconFrame

\* Rob: cooldown, target below 100 and robber below 50 reject; then LastRob is
\* set and rand decides between a theft of 50..maxSteal+49 and the fine.
Rob(robber, target, dt, success, most) ==
    LET t == now + dt
        maxSteal == IF users[target].Money \div 10 > 1000 THEN 1000
                    ELSE users[target].Money \div 10
        stolen == IF most THEN maxSteal - 1 + 50 ELSE 50
        marked == [users EXCEPT ![robber].LastRob = t]
    IN /\ econRet.n < MaxEconOps
       /\ now' = t
       /\ IF \/ t - users[robber].LastRob < RobCooldown
             \/ users[target].Money < 100
             \/ users[robber].Money < 50
          THEN /\ users' = users
               /\ econRet' = EconRet("Rob", TRUE)
          ELSE /\ econRet' = EconRet("Rob", FALSE)
               /\ IF success
                  THEN LET taken == [marked EXCEPT ![target].Money = @ - stolen]
                       IN users' = [taken EXCEPT ![robber].Money = @ + stolen]
                  ELSE users' = FailedRob(marked, robber)
       /\ EconFrame

BuyItem(user, itemKey) ==
    /\ econRet.n < MaxEconOps
    /\ IF itemKey \notin DOMAIN ShopItems
       THEN /\ users' = users
            /\ econRet' = EconRet("BuyItem", TRUE)
       ELSE IF users[user].Money < ShopItems[itemKey] \/ itemKey \in users[user].Inventory
       THEN /\ users' = users
            /\ econRet' = EconRet("BuyItem", TRUE)
       ELSE /\ users' = [users EXCEPT ![user].Money = @ - ShopItems[itemKey],
                                      ![user].Inventory = @ \cup {itemKey}]
            /\ econRet' = EconRet("BuyItem", FALSE)
    /\ UNCHANGED now
    /\ EconFrame

ATMDeposit(user, amount) ==
    /\ econRet.n < MaxEconOps
    /\ IF users[user].Money < amount \/ amount < 10
       THEN /\ users' = users
            /\ econRet' = EconRet("ATMDeposit", TRUE)
       ELSE /\ users' = [users EXCEPT ![user].Money = @ - amount, ![user].ATM = @ + amount]
            /\ econRet' = EconRet("ATMDeposit", FALSE)
    /\ UNCHANGED now
    /\ EconFrame

ATMWithdraw(user, amount) ==
    /\ econRet.n < MaxEconOps
    /\ IF users[user].ATM < amount \/ amount < 10
       THEN /\ users' = users
            /\ econRet' = EconRet("ATMWithdraw", TRUE)
       ELSE /\ users' = [users EXCEPT ![user].ATM = @ - amount, ![user].Money = @ + amount]
            /\ econRet' = EconRet("ATMWithdraw", FALSE)
    /\ UNCHANGED now
    /\ EconFrame

InitEconomy ==
    /\ lists = <<>>
    /\ publicMode = FALSE
    /\ InitDispatcher
    /\ InitEnv

NextEconomy ==
    \/ \E saved \in [EconUsers -> SavedUsers] : LoadUsers(saved)
    \/ \E u, v \in EconUsers, a \in EconAmounts : Transfer(u, v, a)
    \/ \E u, v \in EconUsers, dt \in EconDelays, success, most \in BOOLEAN :
          Rob(u, v, dt, success, most)
    \/ \E u \in EconUsers, k \in ItemKeys : BuyItem(u, k)
    \/ \E u \in EconUsers, a \in EconAmounts : ATMDeposit(u, a)
    \/ \E u \in EconUsers, a \in EconAmounts : ATMWithdraw(u, a)

SpecEconomy == InitEconomy /\ [][NextEconomy]_vars

\* C40: after any sequence of Transfer, Rob, BuyItem, ATMDeposit and
\* ATMWithdraw from non-negative balances every user's Money and ATM are
\* non-negative, and a rejected operation leaves every balance as it was.
C40_BalancesNonNegative ==
    /\ \A u \in EconUsers : users[u].Money >= 0 /\ users[u].ATM >= 0
    /\ (econRet.op \notin {"none", "Load"} /\ econRet.rejected) =>
          \A u \in EconUsers : /\ users[u].Money = econRet.before[u].Money
                               /\ users[u].ATM = econRet.before[u].ATM

\* A robber who had between 50 and 99 coins was caught and fined.
C40_FinedBelowZero ==
    /\ econRet.op = "Rob" /\ ~econRet.rejected
    /\ \E u \in EconUsers :
          /\ econRet.before[u].Money \in 50..99
          /\ users[u].Money = econRet.before[u].Money - 100
          /\ users[u].Money < 0

====
